---- MODULE Spec2Model ----
(***************************************************************************)
(* Qwen2-VL vision encoder and embedding fusion                            *)
(* (vllm/model_executor/models/qwen2_vl.py).                               *)
(*                                                                         *)
(* Tensors are modelled by their rows.  A row of the embedding tensor is   *)
(* an opaque value: <<"vocab", tok>> is the language model's embedding of  *)
(* token tok, <<"image", k>> / <<"video", k>> is row k of the feature      *)
(* tensor of that modality.  Every operation modelled here moves rows      *)
(* around without looking inside them, so distinct opaque rows are the     *)
(* most general input.                                                     *)
(***************************************************************************)
EXTENDS Integers, Sequences, FiniteSets, TLC

VARIABLES
    input_ids,              \* get_input_embeddings: the token-id sequence
    inputs_embeds,          \* get_input_embeddings: the embedding tensor (rows)
    multimodal_embeddings,  \* get_input_embeddings: None or list of (rows, modality)
    fusion_status,          \* "idle" | "returned" | "raised"
    image_grid_thw,         \* forward: grid descriptors of the request's images
    video_grid_thw,         \* forward: grid descriptors of the request's videos
    grid_thw,               \* Qwen2VisionTransformer.forward: its grid descriptors
    cu_seqlens,             \* Qwen2VisionTransformer.forward: segment boundaries
    merged_rows,            \* Qwen2VisionTransformer.forward: rows the merger returns
    pos_ids,                \* rot_pos_emb: the (row, column) pair of every packed patch
    merger_groups,          \* merger: per output row, the packed patches it is viewed from
    encoder_status,         \* "idle" | "returned" | "raised"
    attn_backend,           \* Qwen2VisionAttention: self.attn_backend
    attn_cu_seqlens,        \* Qwen2VisionAttention.forward: its cu_seqlens argument
    attn_x,                 \* Qwen2VisionAttention.forward: its input rows x
    attn_x_perturbed,       \* the input of a second run: x with one row changed
    attended,               \* pairs (i, j) with key j taking part in query i's softmax
    context_layer,          \* Qwen2VisionAttention.forward: attention output rows
    context_layer_perturbed,\* attention output rows of the second run
    attn_status,            \* "idle" | "returned"
    attn_object,            \* "unconstructed" | "constructed" | "construction_raised"
    detected_backend,       \* what get_vit_attn_backend returned to __init__
    forward_calls,          \* number of forward calls the attention object has served
    seq_len_cached,         \* Qwen2VisionRotaryEmbedding: self._seq_len_cached
    freqs_cached,           \* Qwen2VisionRotaryEmbedding: self._freqs_cached (None or rows)
    lookups,                \* the forward calls made in a row, with what each returned
    rot_pc,                 \* per thread: where its forward call stands
    rot_arg,                \* per thread: "int" | "tensor", the type of its seqlen argument
    rot_seqlen,             \* per thread: the seqlen its forward call was given
    rot_local,              \* per thread: the local seqlen of update_freqs_cache
    rot_result,             \* per thread: None or the rows its forward call returned
    mm_kwargs,              \* get_multimodal_embeddings: its keyword arguments
    mm_image_input,         \* get_multimodal_embeddings: the parsed image input, or None
    mm_video_input,         \* get_multimodal_embeddings: the parsed video input, or None
    visual_calls,           \* the calls of self.visual made so far, with their arguments
    mm_result,              \* get_multimodal_embeddings: None or the list it returned
    mm_status,              \* "idle" | "returned" | "raised_ValueError" | "raised_in_encoder"
    visual_dtype,           \* self.visual.dtype: the dtype of the encoder's parameters
    num_heads,              \* Qwen2VisionTransformer: self.num_heads
    embed_dim,              \* Qwen2VisionTransformer: self.embed_dim
    weights,                \* load_weights: the (name, tensor) pairs it was given
    loader_calls,           \* load_weights: the weight_loader calls made, in order
    params,                 \* per parameter name: None or the tensor its loader stored
    loaded_params,          \* load_weights: the names added to loaded_params
    load_status,            \* "idle" | "returned" | "raised_KeyError"
    qkv_split,              \* Qwen2VisionAttention.forward: where q, k, v come from
    rope_dtype,             \* apply_rotary_pos_emb_vision: the dtype of its argument t
    rope_x,                 \* the vector before any rotation
    rope_t,                 \* the vector as the last apply_rotary_pos_emb_vision returned it
    rope_exact,             \* the same computed without rounding: numerators and denominators
    rope_freqs,             \* the freqs argument of the last call, one angle per position
    rope_calls,             \* number of apply_rotary_pos_emb_vision calls made
    max_grid_size,          \* rot_pos_emb: the table length it asked for
    rotary_pos_emb_full,    \* rot_pos_emb: the table the rotary embedding returned
    rotary_pos_emb,         \* rot_pos_emb: the rotation vectors it returned, one per patch
    rot_pos_status          \* "idle" | "returned" | "raised_RuntimeError" | "raised_IndexError"

fusion_vars == <<input_ids, inputs_embeds, multimodal_embeddings, fusion_status,
                 image_grid_thw, video_grid_thw>>
encoder_vars == <<grid_thw, cu_seqlens, merged_rows, pos_ids, merger_groups,
                  encoder_status>>

attn_vars == <<attn_backend, attn_cu_seqlens, attn_x, attn_x_perturbed, attended,
               context_layer, context_layer_perturbed, attn_status>>
construct_vars == <<attn_object, detected_backend, forward_calls>>
rotary_call_vars == <<lookups, rot_pc, rot_arg, rot_seqlen, rot_local, rot_result>>
rotary_vars == <<seq_len_cached, freqs_cached, rotary_call_vars>>

mm_vars == <<mm_kwargs, mm_image_input, mm_video_input, visual_calls, mm_result, mm_status,
             visual_dtype>>

load_vars == <<num_heads, embed_dim, weights, loader_calls, params, loaded_params,
               load_status, qkv_split>>

rope_vars == <<rope_dtype, rope_x, rope_t, rope_exact, rope_freqs, rope_calls>>

rot_pos_vars == <<max_grid_size, rotary_pos_emb_full, rotary_pos_emb, rot_pos_status>>

vars == <<fusion_vars, encoder_vars, attn_vars, construct_vars, rotary_vars, mm_vars,
          load_vars, rope_vars, rot_pos_vars>>

-----------------------------------------------------------------------------
(* Bounds of the model *)

MaxLen == 4          \* longest token sequence handed to get_input_embeddings
MaxRows == 3         \* most rows of a feature tensor handed to get_input_embeddings
NumTextTokens == 1   \* number of ordinary (non-placeholder) token ids
MaxItems == 2        \* most items of one grid list / of one request
MaxWindows == 4      \* most merge windows (t*h*w / merge_size^2) of one item
MaxSegs == 2         \* most segments of a cu_seqlens handed to the attention
MaxSegLen == 3       \* longest segment of a cu_seqlens handed to the attention
MaxCalls == 3        \* most forward calls served by one attention object
MaxSeqlen == 5       \* longest table asked of the rotary embedding
MaxLookups == 3      \* most lookups made one after another on one rotary embedding
NumThreads == 2      \* threads that look up the rotary embedding concurrently
MaxHeads == 2        \* most attention heads of the vision encoder
MaxHeadSize == 2     \* largest head size (embed_dim / num_heads) of the vision encoder
MaxWeights == 3      \* most (name, tensor) pairs handed to one load_weights call
MaxAbs == 2          \* largest absolute value of an element of a rotated vector

(* Program constants *)

ImageTokenId == 151655      \* config.image_token_id
VideoTokenId == 151656      \* config.video_token_id
spatial_merge_size == 2     \* vision_config.spatial_merge_size
merge_size == 2             \* image_processor.merge_size

\* Optional values: None, or Some(v) with v a sequence
None == [some |-> FALSE, val |-> <<>>]
Some(v) == [some |-> TRUE, val |-> v]

-----------------------------------------------------------------------------
(* Sequence helpers *)

SeqsUpTo(S, n) == UNION {[1..k -> S] : k \in 0..n}

RECURSIVE SumSeq(_)
SumSeq(s) == IF s = <<>> THEN 0 ELSE Head(s) + SumSeq(Tail(s))

Replicate(x, n) == [i \in 1..n |-> x]

-----------------------------------------------------------------------------
(* Embedding fusion *)

TextTokens == 1..NumTextTokens
Vocab == TextTokens \cup {ImageTokenId, VideoTokenId}

\* self.language_model.get_input_embeddings(input_ids): one vocabulary row per token
LanguageModelEmbeddings(ids) == [i \in 1..Len(ids) |-> <<"vocab", ids[i]>>]

\* a feature tensor of R rows of one modality
FeatureRows(modality, R) == [k \in 1..R |-> <<modality, k>>]

\* mask = (input_ids == placeholder_token_id); the positions where it is True,
\* in increasing order (the order in which masked assignment visits them)
MaskPositions(ids, placeholder_token_id) ==
    SelectSeq([i \in 1..Len(ids) |-> i],
              LAMBDA i : ids[i] = placeholder_token_id)

\* number of True entries of the mask strictly before position i, plus one
RankInMask(ids, placeholder_token_id, i) ==
    Cardinality({j \in 1..i : ids[j] = placeholder_token_id})

\* Faulty variant: the feature rows are written in reverse order.
MergeMultimodalEmbeddingsReversed(ids, embeds, mm, placeholder_token_id) ==
    LET P == Len(MaskPositions(ids, placeholder_token_id))
        R == Len(mm)
    IN  IF R = P \/ R = 1
        THEN [ok |-> TRUE,
              embeds |-> [i \in 1..Len(embeds) |->
                            IF ids[i] = placeholder_token_id
                            THEN mm[IF R = P
                                    THEN P + 1 - RankInMask(ids, placeholder_token_id, i)
                                    ELSE 1]
                            ELSE embeds[i]]]
        ELSE [ok |-> FALSE, embeds |-> embeds]

\* Faulty variant: the mask does not tell the two placeholder ids apart.
MergeMultimodalEmbeddingsEverywhere(ids, embeds, mm, placeholder_token_id) ==
    LET P == Len(MaskPositions(ids, placeholder_token_id))
        R == Len(mm)
    IN  IF R = P \/ R = 1
        THEN [ok |-> TRUE,
              embeds |-> [i \in 1..Len(embeds) |->
                            IF ids[i] \in {ImageTokenId, VideoTokenId} /\ R >= 1
                            THEN mm[IF R = P /\ ids[i] = placeholder_token_id
                                    THEN RankInMask(ids, placeholder_token_id, i)
                                    ELSE 1]
                            ELSE embeds[i]]]
        ELSE [ok |-> FALSE, embeds |-> embeds]

\* inputs_embeds[mask, :] = multimodal_embeddings.  The indexed result has P rows
\* (P = number of True entries).  The value tensor is expanded to that shape: it
\* fits when it has P rows, or when it has one row (that row is then written to
\* every masked position); any other row count raises "shape mismatch" before a
\* single row is written.
MergeMultimodalEmbeddings(ids, embeds, mm, placeholder_token_id) ==
    LET P == Len(MaskPositions(ids, placeholder_token_id))
        R == Len(mm)
    IN  IF R = P \/ R = 1
        THEN [ok |-> TRUE,
              embeds |-> [i \in 1..Len(embeds) |->
                            IF ids[i] = placeholder_token_id
                            THEN mm[IF R = P
                                    THEN RankInMask(ids, placeholder_token_id, i)
                                    ELSE 1]
                            ELSE embeds[i]]]
        ELSE [ok |-> FALSE, embeds |-> embeds]

\* the loop of get_input_embeddings over the (embeddings, modality) list: each
\* entry is merged in place into the same tensor; an exception leaves the loop
\* with the tensor as the earlier iterations left it
RECURSIVE MergeLoop(_, _, _)
MergeLoop(ids, embeds, mms) ==
    IF mms = <<>>
    THEN [ok |-> TRUE, embeds |-> embeds]
    ELSE LET e == Head(mms)
             afterImage ==
                 IF e.modality = "image"
                 THEN MergeMultimodalEmbeddings(ids, embeds, e.embeddings, ImageTokenId)
                 ELSE [ok |-> TRUE, embeds |-> embeds]
             afterVideo ==
                 IF ~afterImage.ok
                 THEN afterImage
                 ELSE IF e.modality = "video"
                      THEN MergeMultimodalEmbeddings(ids, afterImage.embeds,
                                                     e.embeddings, VideoTokenId)
                      ELSE afterImage
         IN  IF afterVideo.ok
             THEN MergeLoop(ids, afterVideo.embeds, Tail(mms))
             ELSE afterVideo

GetInputEmbeddingsResult(ids, mms) ==
    IF mms = None
    THEN [ok |-> TRUE, embeds |-> LanguageModelEmbeddings(ids)]
    ELSE MergeLoop(ids, LanguageModelEmbeddings(ids), mms.val)

\* the list get_multimodal_embeddings returns: None when neither modality is
\* supplied, else the image entry (if any) followed by the video entry (if any)
MultimodalEmbeddingsList(image_embeds, video_embeds) ==
    IF image_embeds = None /\ video_embeds = None
    THEN None
    ELSE Some((IF image_embeds = None THEN <<>>
               ELSE <<[embeddings |-> image_embeds.val, modality |-> "image"]>>)
              \o
              (IF video_embeds = None THEN <<>>
               ELSE <<[embeddings |-> video_embeds.val, modality |-> "video"]>>))

FeatureInputs(modality) ==
    {None} \cup {Some(FeatureRows(modality, R)) : R \in 0..MaxRows}

-----------------------------------------------------------------------------
(* Rotary angle cache: Qwen2VisionRotaryEmbedding *)

\* Faulty variant: angles scaled by the table's length.
FreqsTableNormalised(seqlen) == [i \in 1..seqlen |-> <<"freqs", i - 1, seqlen>>]

\* torch.outer(torch.arange(seqlen), self.inv_freq): row i is i * inv_freq;
\* inv_freq depends on theta and dim only, so it is the same vector at every
\* recomputation and <<"freqs", i>> stands for the row i * inv_freq
FreqsTable(seqlen) == [i \in 1..seqlen |-> <<"freqs", i - 1>>]

\* rows of the stored table; None has none
TableRows(cached) == IF cached.some THEN Len(cached.val) ELSE 0

\* Faulty variant: the table is rebuilt whenever the length differs.
UpdateFreqsCacheRefit(cached_len, cached, seqlen) ==
    IF seqlen # cached_len
    THEN [seq_len_cached |-> seqlen, freqs_cached |-> Some(FreqsTable(seqlen)),
          recomputed |-> 1]
    ELSE [seq_len_cached |-> cached_len, freqs_cached |-> cached, recomputed |-> 0]

\* Faulty variant: the table is recomputed to the length asked for, not to
\* twice that length.
UpdateFreqsCacheExactFit(cached_len, cached, seqlen) ==
    IF seqlen > cached_len
    THEN [seq_len_cached |-> seqlen, freqs_cached |-> Some(FreqsTable(seqlen)),
          recomputed |-> 1]
    ELSE [seq_len_cached |-> cached_len, freqs_cached |-> cached, recomputed |-> 0]

\* update_freqs_cache, run without interruption: a seqlen above the recorded
\* length doubles, is recorded, and the table is recomputed to that length;
\* recomputed counts the evaluations of torch.outer
UpdateFreqsCache(cached_len, cached, seqlen) ==
    IF seqlen > cached_len
    THEN [seq_len_cached |-> seqlen * 2, freqs_cached |-> Some(FreqsTable(seqlen * 2)),
          recomputed |-> 1]
    ELSE [seq_len_cached |-> cached_len, freqs_cached |-> cached, recomputed |-> 0]

\* forward is declared with seqlen: int; rot_pos_emb, its caller, passes the
\* 0-dim tensor grid_thw[:, 1:].max()
ArgTypes == {"int", "tensor"}

\* the value of forward's seqlen once update_freqs_cache has returned: on a
\* tensor `seqlen *= 2` multiplies in place, so the caller's tensor is doubled
\* as well; on an int it rebinds the callee's local name only
SeqlenAfterUpdate(arg, seqlen, grew) ==
    IF arg = "tensor" /\ grew THEN seqlen * 2 ELSE seqlen

\* self._freqs_cached[:seqlen]: a slice stops at the end of the table
SliceRows(table, seqlen) ==
    SubSeq(table, 1, IF seqlen <= Len(table) THEN seqlen ELSE Len(table))

-----------------------------------------------------------------------------
(* Vision encoder: segment boundaries and merged rows *)

\* grid descriptors (t, h, w) as the image processor emits them: h and w are
\* multiples of the merge size
Grids ==
    {<<c[1], spatial_merge_size * c[2], spatial_merge_size * c[3]>> :
        c \in {d \in (1..MaxWindows) \X (1..MaxWindows) \X (1..MaxWindows) :
                  d[1] * d[2] * d[3] <= MaxWindows}}

GridProd(g) == g[1] * g[2] * g[3]

\* rows of the packed patch tensor that comes with a grid list
NumPatches(thw) == SumSeq([n \in DOMAIN thw |-> GridProd(thw[n])])

\* Faulty variant: one length t*h*w per item.
RECURSIVE RepeatInterleavePerItem(_)
RepeatInterleavePerItem(thw) ==
    IF thw = <<>> THEN <<>>
    ELSE <<GridProd(Head(thw))>> \o RepeatInterleavePerItem(Tail(thw))

\* torch.repeat_interleave(grid_thw[:, 1] * grid_thw[:, 2], grid_thw[:, 0]):
\* the value h*w of each item, repeated t times
RECURSIVE RepeatInterleave(_)
RepeatInterleave(thw) ==
    IF thw = <<>> THEN <<>>
    ELSE Replicate(Head(thw)[2] * Head(thw)[3], Head(thw)[1])
         \o RepeatInterleave(Tail(thw))

\* .cumsum(dim=0): running sums (int32; the bounds stay far below 2^31)
RECURSIVE CumSum(_, _)
CumSum(s, acc) ==
    IF s = <<>> THEN <<>>
    ELSE <<acc + Head(s)>> \o CumSum(Tail(s), acc + Head(s))

\* Faulty variant: the leading 0 is not padded in.
CuSeqlensUnpadded(thw) == CumSum(RepeatInterleave(thw), 0)

\* F.pad(cu_seqlens, (1, 0), "constant", 0): one leading 0
CuSeqlens(thw) == <<0>> \o CumSum(RepeatInterleave(thw), 0)

\* Qwen2VisionPatchMerger.forward: x.view(-1, hidden_size) with
\* hidden_size = context_dim * spatial_merge_size**2 turns L rows of context_dim
\* into L / spatial_merge_size**2 rows; the view raises when L is not divisible
PatchMergerRows(L) ==
    IF L % (spatial_merge_size * spatial_merge_size) = 0
    THEN [ok |-> TRUE, rows |-> L \div (spatial_merge_size * spatial_merge_size)]
    ELSE [ok |-> FALSE, rows |-> 0]

\* Faulty variant: groups of merge_size patches.
MergerGroupsByMergeSize(L) ==
    [j \in 1..(L \div spatial_merge_size) |->
        [o \in 1..spatial_merge_size |-> (j - 1) * spatial_merge_size + (o - 1)]]

\* Qwen2VisionPatchMerger.forward: after x.view(-1, hidden_size) output row j
\* (from 0) is the concatenation of the rows j*m^2 .. (j+1)*m^2 - 1 of x, m the
\* merge size; the groups list those row indices for every output row
MergerGroups(L) ==
    [j \in 1..(L \div (spatial_merge_size * spatial_merge_size)) |->
        [o \in 1..(spatial_merge_size * spatial_merge_size) |->
            (j - 1) * spatial_merge_size * spatial_merge_size + (o - 1)]]

\* Faulty variant: no permute, the ids stay in row-major order.
SourceIndexRowMajor(n, h, w) == n

\* .reshape(h // m, m, w // m, m).permute(0, 2, 1, 3).flatten(): element n of
\* the result, n = ((a * (w // m) + c) * m + b) * m + d, is element [a, b, c, d]
\* of the reshaped tensor, which is element ((a * m + b) * (w // m) + c) * m + d
\* of the row-major (h, w) tensor
SourceIndex(n, h, w) ==
    LET m == spatial_merge_size
        C == w \div m
        d == n % m
        b == (n \div m) % m
        c == (n \div (m * m)) % C
        a == n \div (m * m * C)
    IN  ((a * m + b) * C + c) * m + d

\* the reshape raises unless the shape it is asked for has the h * w elements
\* of the tensor
ReshapeFits(h, w) ==
    (h \div spatial_merge_size) * spatial_merge_size
        * (w \div spatial_merge_size) * spatial_merge_size = h * w

\* Faulty variant: repeat_interleave, every row t times in place.
TileInterleaved(rows, t) ==
    [n \in 1..(t * Len(rows)) |-> rows[((n - 1) \div t) + 1]]

\* .repeat(t, 1): the rows, t times over
Tile(rows, t) ==
    [n \in 1..(t * Len(rows)) |-> rows[((n - 1) % Len(rows)) + 1]]

\* one pass of the loop of rot_pos_emb: in the row-major (h, w) tensors
\* hpos_ids[k] = k // w and wpos_ids[k] = k % w; both are reordered, stacked into
\* pairs and repeated for the t frames
PosIdsOfItem(g) ==
    LET h == g[2]
        w == g[3]
        frame == [n \in 1..(h * w) |->
                     LET k == SourceIndex(n - 1, h, w) IN <<k \div w, k % w>>]
    IN  Tile(frame, g[1])

\* Faulty variant: no reshape ever fails.
AllReshapesFitUnchecked(thw) == TRUE

\* rot_pos_emb returns: every reshape of its loop fits
AllReshapesFit(thw) == \A n \in DOMAIN thw : ReshapeFits(thw[n][2], thw[n][3])

\* rot_pos_emb, the position ids: the items' pairs concatenated in the order of
\* the grid list; a reshape that does not fit raises RuntimeError
RECURSIVE RotPosIds(_)
RotPosIds(thw) ==
    IF thw = <<>> THEN [ok |-> TRUE, pos_ids |-> <<>>]
    ELSE IF ~ReshapeFits(Head(thw)[2], Head(thw)[3])
         THEN [ok |-> FALSE, pos_ids |-> <<>>]
         ELSE LET rest == RotPosIds(Tail(thw))
              IN  IF rest.ok
                  THEN [ok |-> TRUE, pos_ids |-> PosIdsOfItem(Head(thw)) \o rest.pos_ids]
                  ELSE [ok |-> FALSE, pos_ids |-> <<>>]

\* Faulty variant: the largest height only.
MaxGridSizeOfHeights(thw) ==
    LET sizes == {thw[n][2] : n \in DOMAIN thw}
    IN  CHOOSE s \in sizes : \A r \in sizes : r <= s

\* grid_thw[:, 1:].max()
MaxGridSize(thw) ==
    LET sizes == {thw[n][2] : n \in DOMAIN thw} \cup {thw[n][3] : n \in DOMAIN thw}
    IN  CHOOSE s \in sizes : \A r \in sizes : r <= s

\* rot_pos_emb, the cache: once the position ids are built the rotary embedding
\* is looked up with max_grid_size
RotaryAfterEncoder(cached_len, cached, thw) ==
    IF thw # <<>> /\ AllReshapesFit(thw)
    THEN UpdateFreqsCache(cached_len, cached, MaxGridSize(thw))
    ELSE [seq_len_cached |-> cached_len, freqs_cached |-> cached]

\* Qwen2VisionTransformer.forward, as far as shapes go: rot_pos_emb, then the
\* segment boundaries, then (past the blocks, which keep the rows in place) the
\* merger; a raise in rot_pos_emb or in the merger's view ends the call with
\* nothing returned
VisionTransformerForward(thw) ==
    LET fits == AllReshapesFit(thw)
        merged == PatchMergerRows(NumPatches(thw))
        ok == fits /\ merged.ok
    IN  [ok |-> ok,
         cu_seqlens |-> IF fits THEN CuSeqlens(thw) ELSE <<>>,
         rows |-> IF ok THEN merged.rows ELSE 0]

-----------------------------------------------------------------------------
(* Prompt replacement *)

\* Faulty variant: divides by merge_size instead of merge_size**2.
NumTokensUnmerged(g) == GridProd(g) \div merge_size

\* get_replacement_qwen2vl: num_tokens = grid_thw.prod() // merge_length,
\* merge_length = image_processor.merge_size**2
NumTokens(g) == GridProd(g) \div (merge_size * merge_size)

\* placeholder[modality] * num_tokens for every item of the modality, in order;
\* each item's run of placeholders follows one ordinary token of the prompt
RECURSIVE PromptFor(_, _)
PromptFor(modality, thw) ==
    IF thw = <<>> THEN <<>>
    ELSE <<1>>
         \o Replicate(IF modality = "image" THEN ImageTokenId ELSE VideoTokenId,
                      NumTokens(Head(thw)))
         \o PromptFor(modality, Tail(thw))

ProcessorPrompt(img, vid) == PromptFor("image", img) \o PromptFor("video", vid)

\* prompts that did not come out of the prompt replacement: one placeholder of
\* a modality more, or one less
RemoveFirst(ids, tok) ==
    LET i == CHOOSE i \in DOMAIN ids :
                 ids[i] = tok /\ \A j \in 1..(i - 1) : ids[j] # tok
    IN  SubSeq(ids, 1, i - 1) \o SubSeq(ids, i + 1, Len(ids))

PromptVariants(img, vid) ==
    LET p == ProcessorPrompt(img, vid)
    IN  {p}
        \cup {p \o <<tok>> : tok \in {ImageTokenId, VideoTokenId}}
        \cup {RemoveFirst(p, tok) :
                tok \in {t \in {ImageTokenId, VideoTokenId} :
                            \E i \in DOMAIN p : p[i] = t}}

-----------------------------------------------------------------------------
(* Variable-length attention *)

Backends == {"FLASH_ATTN", "TORCH_SDPA", "XFORMERS"}

RECURSIVE MaxOf(_)
MaxOf(s) == IF Len(s) = 1 THEN s[1]
            ELSE IF s[1] >= MaxOf(Tail(s)) THEN s[1] ELSE MaxOf(Tail(s))

\* cu_seqlens[1:] - cu_seqlens[:-1]
SeqlensOf(cu) == [k \in 1..(Len(cu) - 1) |-> cu[k + 1] - cu[k]]

\* the patch indices a Python slice lo:hi selects out of 0..S-1
Slice(lo, hi, S) == {p \in 0..(S - 1) : lo <= p /\ p < hi}

\* Faulty variant: the slices include their upper end.
RECURSIVE DenseMaskLoopInclusive(_, _, _, _)
DenseMaskLoopInclusive(mask, cu, i, S) ==
    IF i > Len(cu) - 1 THEN mask
    ELSE DenseMaskLoopInclusive(
             mask \cup (Slice(cu[i], cu[i + 1] + 1, S) \X Slice(cu[i], cu[i + 1] + 1, S)),
             cu, i + 1, S)

\* TORCH_SDPA: attention_mask starts all False; for i in range(1, len(cu_seqlens))
\* the square cu[i-1]:cu[i] x cu[i-1]:cu[i] is set True.  The mask is kept as the
\* set of its True entries.
RECURSIVE DenseMaskLoop(_, _, _, _)
DenseMaskLoop(mask, cu, i, S) ==
    IF i > Len(cu) - 1 THEN mask
    ELSE DenseMaskLoop(
             mask \cup (Slice(cu[i], cu[i + 1], S) \X Slice(cu[i], cu[i + 1], S)),
             cu, i + 1, S)

DenseMaskInclusive(cu, S) == DenseMaskLoopInclusive({}, cu, 1, S)

DenseMask(cu, S) == DenseMaskLoop({}, cu, 1, S)

\* Faulty variant: causal=True, a query sees only the keys up to itself.
VarlenPairsCausal(cu, S) ==
    UNION {{<<cu[b] + qo, cu[b] + ko>> :
                  qo \in 0..(cu[b + 1] - cu[b] - 1),
                  ko \in 0..(cu[b + 1] - cu[b] - 1)}
               \cap {pr \in (0..(S - 1)) \X (0..(S - 1)) : pr[2] <= pr[1]}
               : b \in 1..(Len(cu) - 1)}

\* FLASH_ATTN: flash_attn_varlen_func(q, k, v, cu_seqlens_q = cu_seqlens_k =
\* cu_seqlens, max_seqlen_q = max_seqlen_k = max_seqlen, causal=False): sequence b
\* of the batch is the rows cu[b] .. cu[b+1]-1, of which the kernel covers at most
\* max_seqlen; inside one sequence every query sees every key.
VarlenPairs(cu, S) ==
    LET max_seqlen == MaxOf(SeqlensOf(cu))
        covered(b) == IF cu[b + 1] - cu[b] <= max_seqlen
                      THEN cu[b + 1] - cu[b] ELSE max_seqlen
    IN  UNION {{<<cu[b] + qo, cu[b] + ko>> :
                  qo \in 0..(covered(b) - 1), ko \in 0..(covered(b) - 1)}
               : b \in 1..(Len(cu) - 1)}

\* Faulty variant: attn_bias is not passed, every query sees every key.
BlockDiagonalPairsNoBias(cu, S) == (0..(S - 1)) \X (0..(S - 1))

\* XFORMERS: BlockDiagonalMask.from_seqlens(q_seqlen=seqlens, kv_seqlen=None):
\* block b starts where the lengths before it end (counted from 0) and is
\* seqlens[b] long, for queries and keys alike.
BlockDiagonalPairs(cu, S) ==
    LET seqlens == SeqlensOf(cu)
        start(b) == SumSeq(SubSeq(seqlens, 1, b - 1))
    IN  UNION {Slice(start(b), start(b) + seqlens[b], S)
                  \X Slice(start(b), start(b) + seqlens[b], S)
               : b \in 1..Len(seqlens)}

AttendedPairs(backend, cu, S) ==
    CASE backend = "FLASH_ATTN" -> VarlenPairs(cu, S)
      [] backend = "TORCH_SDPA" -> DenseMask(cu, S)
      [] backend = "XFORMERS"   -> BlockDiagonalPairs(cu, S)

\* The rows of q, k and v come from the row of x at the same index alone (the
\* qkv projection, the split and the rotary embedding all act row by row).
\* Output row i is the softmax-weighted sum over the keys j that take part
\* for query i: a function of q[i] and of the (k[j], v[j]) of those j.
ContextLayer(backend, cu, x) ==
    LET S == cu[Len(cu)]
        pairs == AttendedPairs(backend, cu, S)
    IN  [i \in 0..(S - 1) |->
            [q |-> <<"q", x[i]>>,
             kv |-> {<<"k", x[j], "v", x[j]>> : j \in {jj \in 0..(S - 1) : <<i, jj>> \in pairs}}]]

\* segment boundaries as the encoder hands them over: 0 first, then the running
\* sums of positive segment lengths, the last one being the number of rows
WellFormedCu(lens) == <<0>> \o CumSum(lens, 0)

-----------------------------------------------------------------------------
(* Specification of get_input_embeddings on arbitrary inputs *)

FusionInit ==
    /\ input_ids = <<>>
    /\ inputs_embeds = <<>>
    /\ multimodal_embeddings = None
    /\ fusion_status = "idle"
    /\ image_grid_thw = <<>>
    /\ video_grid_thw = <<>>

EncoderInit ==
    /\ grid_thw = <<>>
    /\ cu_seqlens = <<>>
    /\ merged_rows = 0
    /\ pos_ids = <<>>
    /\ merger_groups = <<>>
    /\ encoder_status = "idle"

Threads == 1..NumThreads

\* Qwen2VisionRotaryEmbedding.__init__: empty cache; no call under way
RotaryInit ==
    /\ seq_len_cached = 0
    /\ freqs_cached = None
    /\ lookups = <<>>
    /\ rot_pc = [th \in Threads |-> "idle"]
    /\ rot_arg = [th \in Threads |-> "int"]
    /\ rot_seqlen = [th \in Threads |-> 0]
    /\ rot_local = [th \in Threads |-> 0]
    /\ rot_result = [th \in Threads |-> None]

\* no call of get_multimodal_embeddings has been made
MmInit ==
    /\ mm_kwargs = <<>>
    /\ mm_image_input = [some |-> FALSE, type |-> "none", ndim |-> 0, values |-> <<>>,
                         grid_ndim |-> 0, grid_thw |-> <<>>]
    /\ mm_video_input = [some |-> FALSE, type |-> "none", ndim |-> 0, values |-> <<>>,
                         grid_ndim |-> 0, grid_thw |-> <<>>]
    /\ visual_calls = <<>>
    /\ mm_result = None
    /\ mm_status = "idle"
    /\ visual_dtype = "float32"

\* nothing has been loaded and no projection computed
NothingLoaded ==
    /\ weights = <<>>
    /\ loader_calls = <<>>
    /\ params = <<>>
    /\ loaded_params = {}
    /\ load_status = "idle"
    /\ qkv_split = <<>>

\* the loading is not exercised: an encoder of one head of size one
LoadIdle == NothingLoaded /\ num_heads = 1 /\ embed_dim = 1

\* rot_pos_emb has not been called
RotPosIdle ==
    /\ max_grid_size = 0
    /\ rotary_pos_emb_full = <<>>
    /\ rotary_pos_emb = <<>>
    /\ rot_pos_status = "idle"

\* no vector has been rotated
RopeIdle ==
    /\ rope_dtype = "float32"
    /\ rope_x = <<>>
    /\ rope_t = <<>>
    /\ rope_exact = <<>>
    /\ rope_freqs = <<>>
    /\ rope_calls = 0

AttnInit ==
    /\ attn_backend \in Backends
    /\ attn_cu_seqlens = <<>>
    /\ attn_x = <<>>
    /\ attn_x_perturbed = <<>>
    /\ attended = {}
    /\ context_layer = <<>>
    /\ context_layer_perturbed = <<>>
    /\ attn_status = "idle"
    /\ attn_object = "constructed"
    /\ detected_backend = attn_backend
    /\ forward_calls = 0

AttnIdle ==
    /\ attn_backend = "TORCH_SDPA"
    /\ attn_cu_seqlens = <<>>
    /\ attn_x = <<>>
    /\ attn_x_perturbed = <<>>
    /\ attended = {}
    /\ context_layer = <<>>
    /\ context_layer_perturbed = <<>>
    /\ attn_status = "idle"
    /\ attn_object = "constructed"
    /\ detected_backend = attn_backend
    /\ forward_calls = 0

\* the attention is not exercised: fusion and encoder start idle
Init == FusionInit /\ EncoderInit /\ RotaryInit /\ MmInit /\ LoadIdle /\ RopeIdle /\ RotPosIdle /\ AttnIdle

\* the attention object after construction, with any supported backend
InitAttention == FusionInit /\ EncoderInit /\ RotaryInit /\ MmInit /\ LoadIdle /\ RopeIdle /\ RotPosIdle /\ AttnInit

\* One call of get_input_embeddings; inputs_embeds is the tensor as the call
\* leaves it, on return or at the raise.
GetInputEmbeddings ==
    /\ fusion_status = "idle"
    /\ \E ids \in SeqsUpTo(Vocab, MaxLen),
       image_embeds \in FeatureInputs("image"),
       video_embeds \in FeatureInputs("video") :
         LET mms == MultimodalEmbeddingsList(image_embeds, video_embeds)
             res == GetInputEmbeddingsResult(ids, mms)
         IN  /\ input_ids' = ids
             /\ multimodal_embeddings' = mms
             /\ inputs_embeds' = res.embeds
             /\ fusion_status' = IF res.ok THEN "returned" ELSE "raised"
             /\ UNCHANGED <<image_grid_thw, video_grid_thw, encoder_vars, attn_vars,
                            construct_vars, rotary_vars, mm_vars, load_vars, rope_vars, rot_pos_vars>>

FusionNext == GetInputEmbeddings

SpecFusion == Init /\ [][FusionNext]_vars

-----------------------------------------------------------------------------
(* Specification of the model forward on pixel inputs: prompt, encoder, fusion *)

\* _process_image_input / _process_video_input on pixel inputs: the encoder's
\* merged rows; None when the modality has no input
ProcessInput(modality, thw) ==
    IF thw = <<>> THEN None
    ELSE Some(FeatureRows(modality, VisionTransformerForward(thw).rows))

\* Qwen2VLForConditionalGeneration.forward with inputs_embeds and
\* intermediate_tensors both None: get_multimodal_embeddings runs the encoder on
\* each supplied modality (images first; each run looks up the rotary cache),
\* get_input_embeddings fuses the rows into the prompt's embeddings.  The
\* language model that consumes the result is outside the model.
\* One behaviour is one request.
Forward ==
    /\ fusion_status = "idle"
    /\ \E img \in SeqsUpTo(Grids, MaxItems), vid \in SeqsUpTo(Grids, MaxItems) :
         /\ Len(img) + Len(vid) <= MaxItems
         /\ \E ids \in PromptVariants(img, vid) :
              LET mms == MultimodalEmbeddingsList(ProcessInput("image", img),
                                                  ProcessInput("video", vid))
                  res == GetInputEmbeddingsResult(ids, mms)
                  rot1 == RotaryAfterEncoder(seq_len_cached, freqs_cached, img)
                  rot2 == RotaryAfterEncoder(rot1.seq_len_cached, rot1.freqs_cached, vid)
              IN  /\ image_grid_thw' = img
                  /\ video_grid_thw' = vid
                  /\ input_ids' = ids
                  /\ multimodal_embeddings' = mms
                  /\ inputs_embeds' = res.embeds
                  /\ fusion_status' = IF res.ok THEN "returned" ELSE "raised"
                  /\ seq_len_cached' = rot2.seq_len_cached
                  /\ freqs_cached' = rot2.freqs_cached
                  /\ UNCHANGED <<encoder_vars, attn_vars, construct_vars,
                                 rotary_call_vars, mm_vars, load_vars, rope_vars, rot_pos_vars>>

ForwardNext == Forward

SpecForward == Init /\ [][ForwardNext]_vars

-----------------------------------------------------------------------------
(* Specification of the vision encoder's forward on a grid list *)

\* One call of Qwen2VisionTransformer.forward on a non-empty grid list.
EncoderForward ==
    /\ encoder_status = "idle"
    /\ \E g \in SeqsUpTo(Grids, MaxItems) \ {<<>>} :
         LET res == VisionTransformerForward(g)
             rot == RotaryAfterEncoder(seq_len_cached, freqs_cached, g)
         IN  /\ grid_thw' = g
             /\ pos_ids' = RotPosIds(g).pos_ids
             /\ cu_seqlens' = res.cu_seqlens
             /\ merged_rows' = res.rows
             /\ merger_groups' = IF res.ok THEN MergerGroups(NumPatches(g))
                                 ELSE <<>>
             /\ encoder_status' = IF res.ok THEN "returned" ELSE "raised"
             /\ seq_len_cached' = rot.seq_len_cached
             /\ freqs_cached' = rot.freqs_cached
             /\ UNCHANGED <<fusion_vars, attn_vars, construct_vars, rotary_call_vars, mm_vars, load_vars, rope_vars, rot_pos_vars>>

EncoderNext == EncoderForward

SpecEncoder == Init /\ [][EncoderNext]_vars

-----------------------------------------------------------------------------
(* Specification of the vision encoder's forward on grid lists of any shape *)

\* grid descriptors with any positive t, h, w: forward takes grid_thw as it is
\* handed in and checks nothing before it uses it
AnyGrids ==
    {g \in (1..MaxItems) \X (1..MaxWindows) \X (1..MaxWindows) :
        GridProd(g) <= spatial_merge_size * spatial_merge_size * MaxWindows}

\* One call of Qwen2VisionTransformer.forward on a non-empty grid list and the
\* packed patches that go with it.
EncoderForwardAnyGrid ==
    /\ encoder_status = "idle"
    /\ \E g \in SeqsUpTo(AnyGrids, MaxItems) \ {<<>>} :
         /\ NumPatches(g) <= spatial_merge_size * spatial_merge_size * MaxWindows
         /\ LET res == VisionTransformerForward(g)
                rot == RotaryAfterEncoder(seq_len_cached, freqs_cached, g)
            IN  /\ grid_thw' = g
                /\ pos_ids' = RotPosIds(g).pos_ids
                /\ cu_seqlens' = res.cu_seqlens
                /\ merged_rows' = res.rows
                /\ merger_groups' = IF res.ok THEN MergerGroups(NumPatches(g))
                                    ELSE <<>>
                /\ encoder_status' = IF res.ok THEN "returned" ELSE "raised"
                /\ seq_len_cached' = rot.seq_len_cached
                /\ freqs_cached' = rot.freqs_cached
                /\ UNCHANGED <<fusion_vars, attn_vars,
                               construct_vars, rotary_call_vars, mm_vars, load_vars, rope_vars, rot_pos_vars>>

EncoderAnyGridNext == EncoderForwardAnyGrid

SpecEncoderAnyGrid == Init /\ [][EncoderAnyGridNext]_vars

-----------------------------------------------------------------------------
(* Specification of Qwen2VisionAttention.forward, run twice on inputs that
   differ in one row *)

AttentionForward ==
    /\ attn_status = "idle"
    /\ \E lens \in SeqsUpTo(1..MaxSegLen, MaxSegs) \ {<<>>} :
         LET cu == WellFormedCu(lens)
             S == cu[Len(cu)]
             x == [i \in 0..(S - 1) |-> <<"patch", i>>]
         IN  \E p \in 0..(S - 1) :
               LET y == [x EXCEPT ![p] = <<"perturbed", p>>]
               IN  /\ attn_cu_seqlens' = cu
                   /\ attn_x' = x
                   /\ attn_x_perturbed' = y
                   /\ attended' = AttendedPairs(attn_backend, cu, S)
                   /\ context_layer' = ContextLayer(attn_backend, cu, x)
                   /\ context_layer_perturbed' = ContextLayer(attn_backend, cu, y)
                   /\ attn_status' = "returned"
                   /\ forward_calls' = forward_calls + 1
                   /\ UNCHANGED <<attn_backend, attn_object, detected_backend,
                                  fusion_vars, encoder_vars, rotary_vars, mm_vars, load_vars, rope_vars, rot_pos_vars>>

AttentionNext == AttentionForward

SpecAttention == InitAttention /\ [][AttentionNext]_vars

-----------------------------------------------------------------------------
(* Specification of the life of one Qwen2VisionAttention object: construction,
   then forward calls *)

\* members of the _Backend enumeration that get_vit_attn_backend may hand back:
\* the three the attention supports and others it does not
AllBackends == Backends \cup {"ROCM_FLASH", "FLASHINFER", "NO_ATTENTION"}

\* before __init__ has run there is no object and no attn_backend attribute
AttnUnconstructed ==
    /\ attn_backend = "unset"
    /\ attn_cu_seqlens = <<>>
    /\ attn_x = <<>>
    /\ attn_x_perturbed = <<>>
    /\ attended = {}
    /\ context_layer = <<>>
    /\ context_layer_perturbed = <<>>
    /\ attn_status = "idle"
    /\ attn_object = "unconstructed"
    /\ detected_backend = "unset"
    /\ forward_calls = 0

InitLifetime == FusionInit /\ EncoderInit /\ RotaryInit /\ MmInit /\ LoadIdle /\ RopeIdle /\ RotPosIdle /\ AttnUnconstructed

\* Faulty variant: an unsupported backend falls back to TORCH_SDPA.
ConstructionOutcomeFallback(detected) ==
    [backend |-> IF detected \in Backends THEN detected ELSE "TORCH_SDPA",
     raised |-> FALSE]

\* Qwen2VisionAttention.__init__, backend part: self.attn_backend takes the
\* detected value, and a value outside the supported set raises RuntimeError
ConstructionOutcome(detected) ==
    [backend |-> detected, raised |-> detected \notin Backends]

\* Qwen2VisionAttention.__init__: when it raises, the caller gets no object
Construct ==
    /\ attn_object = "unconstructed"
    /\ \E detected \in AllBackends :
         LET res == ConstructionOutcome(detected)
         IN  /\ detected_backend' = detected
             /\ attn_backend' = res.backend
             /\ attn_object' = IF res.raised THEN "construction_raised"
                               ELSE "constructed"
    /\ UNCHANGED <<attn_cu_seqlens, attn_x, attn_x_perturbed, attended, context_layer,
                   context_layer_perturbed, attn_status, forward_calls,
                   fusion_vars, encoder_vars, rotary_vars, mm_vars, load_vars, rope_vars, rot_pos_vars>>

\* what one forward call on boundaries cu leaves behind, computed with the
\* backend the object holds; the second run gets the same input
ForwardOutputs(cu) ==
    LET S == cu[Len(cu)]
        x == [i \in 0..(S - 1) |-> <<"patch", i>>]
    IN  /\ attn_cu_seqlens' = cu
        /\ attn_x' = x
        /\ attn_x_perturbed' = x
        /\ attended' = AttendedPairs(attn_backend, cu, S)
        /\ context_layer' = ContextLayer(attn_backend, cu, x)
        /\ context_layer_perturbed' = ContextLayer(attn_backend, cu, x)
        /\ attn_status' = "returned"
        /\ forward_calls' = forward_calls + 1

\* Faulty variant: forward picks the strategy again from the batch shape.
AttentionForwardCallReselecting ==
    /\ attn_object = "constructed"
    /\ forward_calls < MaxCalls
    /\ \E lens \in SeqsUpTo(1..MaxSegLen, MaxSegs) \ {<<>>} :
         /\ ForwardOutputs(WellFormedCu(lens))
         /\ attn_backend' = IF Len(lens) > 1 THEN "TORCH_SDPA" ELSE attn_backend
    /\ UNCHANGED <<attn_object, detected_backend, fusion_vars,
                   encoder_vars, rotary_vars, mm_vars, load_vars, rope_vars, rot_pos_vars>>

\* Qwen2VisionAttention.forward on an object that serves one call after
\* another: it branches on self.attn_backend and never assigns it
AttentionForwardCall ==
    /\ attn_object = "constructed"
    /\ forward_calls < MaxCalls
    /\ \E lens \in SeqsUpTo(1..MaxSegLen, MaxSegs) \ {<<>>} :
         /\ ForwardOutputs(WellFormedCu(lens))
         /\ attn_backend' = attn_backend
    /\ UNCHANGED <<attn_object, detected_backend, fusion_vars,
                   encoder_vars, rotary_vars, mm_vars, load_vars, rope_vars, rot_pos_vars>>

LifetimeNext == Construct \/ AttentionForwardCall

SpecAttentionLifetime == InitLifetime /\ [][LifetimeNext]_vars

\* C11: an attention object holds, after any number of forward calls on any
\* batch shapes, the backend that was chosen at its construction.
C11_BackendFixedAtConstruction ==
    attn_object = "constructed" => attn_backend = detected_backend

C11_Witness ==
    /\ attn_object = "constructed"
    /\ forward_calls = 3
    /\ attn_cu_seqlens = <<0, 2, 5>>
    /\ attn_backend = "XFORMERS"
    /\ detected_backend = "XFORMERS"

\* C12: construction on a detected backend outside FLASH_ATTN, TORCH_SDPA,
\* XFORMERS raises and yields no object; an object that exists holds one of the
\* three, never a substitute for an unsupported one.
C12_UnsupportedBackendRaises ==
    /\ attn_object # "unconstructed" =>
          (detected_backend \notin Backends <=> attn_object = "construction_raised")
    /\ attn_object = "constructed" =>
          attn_backend \in Backends /\ attn_backend = detected_backend

C12_Witness ==
    /\ attn_object = "construction_raised"
    /\ detected_backend = "ROCM_FLASH"
    /\ forward_calls = 0

-----------------------------------------------------------------------------
(* Specification of lookups made one after another on one rotary embedding *)

\* Qwen2VisionRotaryEmbedding.forward(seqlen), run without interruption; the
\* call is appended to lookups with the rows it returned and the cache it left
RotaryForward ==
    /\ Len(lookups) < MaxLookups
    /\ \E arg \in ArgTypes, seqlen \in 1..MaxSeqlen :
         LET upd == UpdateFreqsCache(seq_len_cached, freqs_cached, seqlen)
             stop == SeqlenAfterUpdate(arg, seqlen, seqlen > seq_len_cached)
         IN  /\ seq_len_cached' = upd.seq_len_cached
             /\ freqs_cached' = upd.freqs_cached
             /\ lookups' = Append(lookups,
                                  [arg |-> arg,
                                   seqlen |-> seqlen,
                                   rows |-> SliceRows(upd.freqs_cached.val, stop),
                                   seq_len_cached |-> upd.seq_len_cached,
                                   freqs_cached |-> upd.freqs_cached,
                                   recomputed |-> upd.recomputed])
    /\ UNCHANGED <<rot_pc, rot_arg, rot_seqlen, rot_local, rot_result,
                   fusion_vars, encoder_vars, attn_vars, construct_vars, mm_vars, load_vars, rope_vars, rot_pos_vars>>

RotaryNext == RotaryForward

SpecRotary == Init /\ [][RotaryNext]_vars

\* C13: after a lookup of length N the capacity is at least N; a later lookup
\* of length M <= N leaves the cache as it was; and row i of any returned
\* table is row i of every earlier returned table that has a row i.
C13_LookupsStable ==
    \A b \in 1..Len(lookups) :
        /\ lookups[b].seq_len_cached >= lookups[b].seqlen
        /\ TableRows(lookups[b].freqs_cached) >= lookups[b].seqlen
        /\ Len(lookups[b].rows) >= lookups[b].seqlen
        /\ \A a \in 1..(b - 1) :
              /\ lookups[b].seqlen <= lookups[a].seqlen =>
                    /\ lookups[b].freqs_cached = lookups[b - 1].freqs_cached
                    /\ lookups[b].seq_len_cached = lookups[b - 1].seq_len_cached
                    /\ lookups[b].rows = SubSeq(lookups[a].rows, 1, lookups[b].seqlen)
              /\ \A i \in 1..Len(lookups[a].rows) :
                    i <= Len(lookups[b].rows) => lookups[b].rows[i] = lookups[a].rows[i]

C13_Witness ==
    /\ Len(lookups) = 3
    /\ lookups[1].seqlen = 2 /\ lookups[2].seqlen = 5 /\ lookups[3].seqlen = 4
    /\ lookups[1].seq_len_cached = 4
    /\ lookups[2].seq_len_cached = 10
    /\ lookups[3].freqs_cached = lookups[2].freqs_cached
    /\ lookups[3].rows = SubSeq(lookups[2].rows, 1, 4)

\* C14: from one lookup to the next the recorded length and the row count of
\* the cached table never decrease.
C14_CacheNeverShrinks ==
    /\ \A b \in 2..Len(lookups) :
          /\ lookups[b].seq_len_cached >= lookups[b - 1].seq_len_cached
          /\ TableRows(lookups[b].freqs_cached) >= TableRows(lookups[b - 1].freqs_cached)
    /\ lookups # <<>> =>
          /\ seq_len_cached = lookups[Len(lookups)].seq_len_cached
          /\ freqs_cached = lookups[Len(lookups)].freqs_cached

C14_Witness ==
    /\ Len(lookups) = 3
    /\ lookups[1].seqlen = 2 /\ lookups[2].seqlen = 1 /\ lookups[3].seqlen = 5
    /\ lookups[1].seq_len_cached = 4 /\ lookups[2].seq_len_cached = 4
    /\ seq_len_cached = 10 /\ TableRows(freqs_cached) = 10

\* the cache as lookup b found it: empty before the first lookup
CapacityBefore(b) == IF b = 1 THEN 0 ELSE lookups[b - 1].seq_len_cached
TableBefore(b) == IF b = 1 THEN None ELSE lookups[b - 1].freqs_cached

\* C24: the cache starts with capacity 0 and no table; a lookup of length L
\* above the capacity recomputes the full table exactly once and sets the
\* capacity to exactly 2*L; a lookup of length L at most the capacity
\* recomputes nothing and leaves capacity and table as they were; after every
\* lookup the recorded capacity is the row count of the stored table.
C24_GrowthRule ==
    /\ lookups = <<>> => seq_len_cached = 0 /\ freqs_cached = None
    /\ seq_len_cached = TableRows(freqs_cached)
    /\ \A b \in 1..Len(lookups) :
          LET L == lookups[b].seqlen
          IN  /\ L > CapacityBefore(b) =>
                    /\ lookups[b].recomputed = 1
                    /\ lookups[b].seq_len_cached = 2 * L
                    /\ lookups[b].freqs_cached.some
                    /\ Len(lookups[b].freqs_cached.val) = 2 * L
                    /\ \A i \in 1..(2 * L) : lookups[b].freqs_cached.val[i] = <<"freqs", i - 1>>
              /\ L <= CapacityBefore(b) =>
                    /\ lookups[b].recomputed = 0
                    /\ lookups[b].seq_len_cached = CapacityBefore(b)
                    /\ lookups[b].freqs_cached = TableBefore(b)
              /\ lookups[b].seq_len_cached = TableRows(lookups[b].freqs_cached)

C24_Witness ==
    /\ Len(lookups) = 3
    /\ lookups[1].seqlen = 1 /\ lookups[1].seq_len_cached = 2 /\ lookups[1].recomputed = 1
    /\ lookups[2].seqlen = 2 /\ lookups[2].seq_len_cached = 2 /\ lookups[2].recomputed = 0
    /\ lookups[3].seqlen = 3 /\ lookups[3].arg = "tensor" /\ lookups[3].recomputed = 1
    /\ seq_len_cached = 6 /\ TableRows(freqs_cached) = 6

-----------------------------------------------------------------------------
(* Specification of forward calls on one rotary embedding from several threads.
   The class takes no lock, so the calls interleave at every read and write of
   the two cache attributes. *)

\* forward(seqlen) is entered
RotCall(th) ==
    /\ rot_pc[th] = "idle"
    /\ \E arg \in ArgTypes, seqlen \in 1..MaxSeqlen :
         /\ rot_arg' = [rot_arg EXCEPT ![th] = arg]
         /\ rot_seqlen' = [rot_seqlen EXCEPT ![th] = seqlen]
    /\ rot_pc' = [rot_pc EXCEPT ![th] = "check"]
    /\ UNCHANGED <<seq_len_cached, freqs_cached, lookups, rot_local, rot_result,
                   fusion_vars, encoder_vars, attn_vars, construct_vars, mm_vars, load_vars, rope_vars, rot_pos_vars>>

\* update_freqs_cache: `if seqlen > self._seq_len_cached:` and `seqlen *= 2`;
\* rot_local is the doubled value, 0 as long as the call has not grown the cache
RotCheck(th) ==
    /\ rot_pc[th] = "check"
    /\ IF rot_seqlen[th] > seq_len_cached
       THEN /\ rot_local' = [rot_local EXCEPT ![th] = rot_seqlen[th] * 2]
            /\ rot_pc' = [rot_pc EXCEPT ![th] = "store_len"]
       ELSE /\ rot_local' = rot_local
            /\ rot_pc' = [rot_pc EXCEPT ![th] = "slice"]
    /\ UNCHANGED <<seq_len_cached, freqs_cached, lookups, rot_arg, rot_seqlen, rot_result,
                   fusion_vars, encoder_vars, attn_vars, construct_vars, mm_vars, load_vars, rope_vars, rot_pos_vars>>

\* update_freqs_cache: `self._seq_len_cached = seqlen`
RotStoreLen(th) ==
    /\ rot_pc[th] = "store_len"
    /\ seq_len_cached' = rot_local[th]
    /\ rot_pc' = [rot_pc EXCEPT ![th] = "store_table"]
    /\ UNCHANGED <<freqs_cached, lookups, rot_arg, rot_seqlen, rot_local, rot_result,
                   fusion_vars, encoder_vars, attn_vars, construct_vars, mm_vars, load_vars, rope_vars, rot_pos_vars>>

\* update_freqs_cache: inv_freq, seq and freqs are computed from the local
\* seqlen, then `self._freqs_cached = freqs`
RotStoreTable(th) ==
    /\ rot_pc[th] = "store_table"
    /\ freqs_cached' = Some(FreqsTable(rot_local[th]))
    /\ rot_pc' = [rot_pc EXCEPT ![th] = "slice"]
    /\ UNCHANGED <<seq_len_cached, lookups, rot_arg, rot_seqlen, rot_local, rot_result,
                   fusion_vars, encoder_vars, attn_vars, construct_vars, mm_vars, load_vars, rope_vars, rot_pos_vars>>

\* forward: `return self._freqs_cached[:seqlen]`; subscripting None raises
\* TypeError
RotSlice(th) ==
    /\ rot_pc[th] = "slice"
    /\ IF freqs_cached.some
       THEN /\ rot_result' = [rot_result EXCEPT
                                 ![th] = Some(SliceRows(freqs_cached.val,
                                                        SeqlenAfterUpdate(rot_arg[th],
                                                                          rot_seqlen[th],
                                                                          rot_local[th] # 0)))]
            /\ rot_pc' = [rot_pc EXCEPT ![th] = "returned"]
       ELSE /\ rot_result' = rot_result
            /\ rot_pc' = [rot_pc EXCEPT ![th] = "raised"]
    /\ UNCHANGED <<seq_len_cached, freqs_cached, lookups, rot_arg, rot_seqlen, rot_local,
                   fusion_vars, encoder_vars, attn_vars, construct_vars, mm_vars, load_vars, rope_vars, rot_pos_vars>>

RotaryConcurrentNext ==
    \E th \in Threads :
        \/ RotCall(th)
        \/ RotCheck(th)
        \/ RotStoreLen(th)
        \/ RotStoreTable(th)
        \/ RotSlice(th)

SpecRotaryConcurrent == Init /\ [][RotaryConcurrentNext]_vars

\* C15: with lookups running concurrently, every lookup of length L returns
\* exactly L rows, row i being the angle row of position i, and no lookup that
\* is about to read the table finds a recorded length above the table's row
\* count.
C15_ConcurrentLookupsConsistent ==
    \A th \in Threads :
        /\ rot_pc[th] # "raised"
        /\ rot_pc[th] = "returned" =>
              /\ rot_result[th].some
              /\ rot_result[th].val = FreqsTable(rot_seqlen[th])
        /\ rot_pc[th] = "slice" => seq_len_cached <= TableRows(freqs_cached)

-----------------------------------------------------------------------------
(* Claims about the attention *)

NumRows == attn_cu_seqlens[Len(attn_cu_seqlens)]

\* i and j lie in the same segment [cu[k-1], cu[k])
SameSegment(i, j) ==
    \E k \in 1..(Len(attn_cu_seqlens) - 1) :
        /\ attn_cu_seqlens[k] <= i /\ i < attn_cu_seqlens[k + 1]
        /\ attn_cu_seqlens[k] <= j /\ j < attn_cu_seqlens[k + 1]

\* C6: key j takes part for query i exactly when i and j lie in the same
\* segment; in the dense strategy these pairs are the True entries of the mask,
\* and the keys behind an output row are those of the row's own segment only.
C6_AttentionIsolation ==
    attn_status = "returned" =>
        \A i \in 0..(NumRows - 1) :
            /\ \A j \in 0..(NumRows - 1) : (<<i, j>> \in attended) <=> SameSegment(i, j)
            /\ attn_backend = "TORCH_SDPA" =>
                  \A j \in 0..(NumRows - 1) :
                      (<<i, j>> \in DenseMask(attn_cu_seqlens, NumRows)) <=> SameSegment(i, j)
            /\ context_layer[i].kv
                  = {<<"k", attn_x[j], "v", attn_x[j]>> :
                        j \in {jj \in 0..(NumRows - 1) : SameSegment(i, jj)}}

C6_Witness ==
    /\ attn_status = "returned"
    /\ attn_backend = "TORCH_SDPA"
    /\ attn_cu_seqlens = <<0, 2, 5>>
    /\ <<1, 0>> \in attended /\ <<1, 2>> \notin attended /\ <<2, 1>> \notin attended
    /\ <<4, 2>> \in attended

PerturbedRow == CHOOSE p \in 0..(NumRows - 1) : attn_x[p] # attn_x_perturbed[p]

\* C7: when the two runs differ in one input row, their outputs agree at every
\* row outside that row's segment (with boundaries [0, n1, n1+n2] and the row in
\* segment 1: at every row of segment 2).
C7_AttentionNoninterference ==
    attn_status = "returned" =>
        \A i \in 0..(NumRows - 1) :
            ~SameSegment(i, PerturbedRow) => context_layer[i] = context_layer_perturbed[i]

C7_Witness ==
    /\ attn_status = "returned"
    /\ attn_cu_seqlens = <<0, 2, 5>>
    /\ PerturbedRow = 1
    /\ \A i \in 2..4 : context_layer[i] = context_layer_perturbed[i]
    /\ \A i \in 0..1 : context_layer[i] # context_layer_perturbed[i]

\* C10: on the same q, k, v and segment boundaries each of the three strategies
\* attends over the pairs the active one attended over, and returns the rows
\* the active one returned.
C10_BackendsInterchangeable ==
    attn_status = "returned" =>
        \A b \in Backends :
            /\ AttendedPairs(b, attn_cu_seqlens, NumRows) = attended
            /\ ContextLayer(b, attn_cu_seqlens, attn_x) = context_layer
            /\ ContextLayer(b, attn_cu_seqlens, attn_x_perturbed) = context_layer_perturbed

C10_Witness ==
    /\ attn_status = "returned"
    /\ attn_backend = "XFORMERS"
    /\ attn_cu_seqlens = <<0, 3, 4>>
    /\ attended = DenseMask(attn_cu_seqlens, 4)
    /\ attended = VarlenPairs(attn_cu_seqlens, 4)
    /\ Cardinality(attended) = 10

-----------------------------------------------------------------------------
(* Vocabulary of the fusion claims, read off the state after the call *)

Modalities == {"image", "video"}

PlaceholderId(modality) == IF modality = "image" THEN ImageTokenId ELSE VideoTokenId

Supplied(modality) ==
    /\ multimodal_embeddings.some
    /\ \E n \in DOMAIN multimodal_embeddings.val :
          multimodal_embeddings.val[n].modality = modality

SuppliedRows(modality) ==
    LET n == CHOOSE n \in DOMAIN multimodal_embeddings.val :
                 multimodal_embeddings.val[n].modality = modality
    IN  multimodal_embeddings.val[n].embeddings

PlaceholderCount(modality) ==
    Cardinality({i \in DOMAIN input_ids : input_ids[i] = PlaceholderId(modality)})

\* position of the k-th occurrence, left to right, of the modality's placeholder
Occurrence(modality, k) ==
    CHOOSE i \in DOMAIN input_ids :
        /\ input_ids[i] = PlaceholderId(modality)
        /\ Cardinality({j \in 1..i : input_ids[j] = PlaceholderId(modality)}) = k

CountsMatch(modality) == Len(SuppliedRows(modality)) = PlaceholderCount(modality)

RowsInOrder(modality) ==
    \A k \in 1..PlaceholderCount(modality) :
        inputs_embeds[Occurrence(modality, k)] = SuppliedRows(modality)[k]

\* C1: with exactly P placeholders of a modality and a feature tensor of exactly
\* P rows, the call returns (when no other modality is supplied) and the row at
\* the k-th placeholder occurrence is feature row k, for every k in 1..P.
C1_FusionRowOrder ==
    \A m \in Modalities :
        (fusion_status # "idle" /\ Supplied(m) /\ CountsMatch(m)) =>
            /\ (\A o \in Modalities \ {m} : ~Supplied(o)) => fusion_status = "returned"
            /\ fusion_status = "returned" => RowsInOrder(m)

C1_Witness ==
    /\ fusion_status = "returned"
    /\ Supplied("image") /\ ~Supplied("video")
    /\ PlaceholderCount("image") = 3
    /\ Len(SuppliedRows("image")) = 3
    /\ inputs_embeds[Occurrence("image", 3)] = <<"image", 3>>
    /\ \E i \in DOMAIN input_ids : input_ids[i] \in TextTokens

\* C2 (as claimed): a feature tensor whose row count differs from the number of
\* placeholder occurrences of its modality makes the call raise.
C2_MismatchIsFatal ==
    \A m \in Modalities :
        (fusion_status # "idle" /\ Supplied(m) /\ ~CountsMatch(m)) =>
            fusion_status = "raised"

\* C3: with image and video both supplied and both counts matching, the call
\* returns, each modality's k-th placeholder holds that modality's row k, and
\* every other position still holds the vocabulary embedding of its token.
C3_MixedModalityFusion ==
    (fusion_status # "idle" /\ Supplied("image") /\ Supplied("video")
        /\ CountsMatch("image") /\ CountsMatch("video")) =>
            /\ fusion_status = "returned"
            /\ RowsInOrder("image")
            /\ RowsInOrder("video")
            /\ \A i \in DOMAIN input_ids :
                  input_ids[i] \notin {ImageTokenId, VideoTokenId} =>
                      inputs_embeds[i] = <<"vocab", input_ids[i]>>

C3_Witness ==
    /\ fusion_status = "returned"
    /\ Supplied("image") /\ Supplied("video")
    /\ PlaceholderCount("image") = 2 /\ Len(SuppliedRows("image")) = 2
    /\ PlaceholderCount("video") = 1 /\ Len(SuppliedRows("video")) = 1
    /\ input_ids[1] = ImageTokenId /\ input_ids[2] = VideoTokenId
    /\ input_ids[3] \in TextTokens /\ input_ids[4] = ImageTokenId
    /\ inputs_embeds = << <<"image", 1>>, <<"video", 1>>,
                          <<"vocab", input_ids[3]>>, <<"image", 2>> >>

\* C4 (as claimed): the call either returns with every placeholder row of every
\* supplied modality replaced, or raises with no row of the tensor replaced.
C4_NoPartialApplication ==
    /\ fusion_status = "returned" =>
          \A m \in Modalities : Supplied(m) =>
              \A i \in DOMAIN input_ids :
                  input_ids[i] = PlaceholderId(m) => inputs_embeds[i][1] = m
    /\ fusion_status = "raised" =>
          \A i \in DOMAIN input_ids : inputs_embeds[i] = <<"vocab", input_ids[i]>>

-----------------------------------------------------------------------------
(* Claims about the forward on pixel inputs and about the encoder *)

GridThw(modality) == IF modality = "image" THEN image_grid_thw ELSE video_grid_thw

CountIn(ids, tok) == Cardinality({i \in DOMAIN ids : ids[i] = tok})

MultiplesOfMergeSize(thw) ==
    \A n \in DOMAIN thw : thw[n][2] % merge_size = 0 /\ thw[n][3] % merge_size = 0

\* sum over the items of t*h*w
TotalPatches(thw) == SumSeq([n \in DOMAIN thw |-> thw[n][1] * thw[n][2] * thw[n][3]])

\* C5: for grids with h and w multiples of merge_size, the placeholders the
\* prompt replacement emits for a modality are as many as the merged rows the
\* encoder returns for those grids (total patches / merge_size^2), and fusing
\* the encoder's rows into that prompt returns.  For the single image grid
\* (1, 4, 4): 16 patches, 4 rows, 4 placeholders fuse, 3 or 5 raise.
C5_TokenCountReconciliation ==
    (fusion_status # "idle"
        /\ MultiplesOfMergeSize(image_grid_thw) /\ MultiplesOfMergeSize(video_grid_thw)) =>
        /\ \A m \in Modalities : GridThw(m) # <<>> =>
              /\ Supplied(m)
              /\ CountIn(ProcessorPrompt(image_grid_thw, video_grid_thw), PlaceholderId(m))
                     = Len(SuppliedRows(m))
              /\ Len(SuppliedRows(m)) * merge_size * merge_size
                     = TotalPatches(GridThw(m))
        /\ input_ids = ProcessorPrompt(image_grid_thw, video_grid_thw) =>
              /\ fusion_status = "returned"
              /\ \A m \in Modalities : Supplied(m) => RowsInOrder(m)
        /\ (image_grid_thw = << <<1, 4, 4>> >> /\ video_grid_thw = <<>>) =>
              /\ TotalPatches(image_grid_thw) = 16
              /\ Len(SuppliedRows("image")) = 4
              /\ PlaceholderCount("image") = 4 => fusion_status = "returned"
              /\ PlaceholderCount("image") \in {3, 5} => fusion_status = "raised"

C5_Witness ==
    /\ fusion_status = "returned"
    /\ image_grid_thw = << <<1, 4, 4>> >>
    /\ video_grid_thw = <<>>
    /\ PlaceholderCount("image") = 4
    /\ Len(SuppliedRows("image")) = 4
    /\ inputs_embeds[Occurrence("image", 4)] = <<"image", 4>>

\* C8: the segment boundaries start at 0, never decrease, end at the total
\* patch count, and every patch index lies in exactly one segment.
C8_SegmentBoundaries ==
    encoder_status # "idle" =>
        /\ cu_seqlens[1] = 0
        /\ \A k \in 1..(Len(cu_seqlens) - 1) : cu_seqlens[k] <= cu_seqlens[k + 1]
        /\ cu_seqlens[Len(cu_seqlens)] = TotalPatches(grid_thw)
        /\ \A p \in 0..(TotalPatches(grid_thw) - 1) :
              Cardinality({k \in 1..(Len(cu_seqlens) - 1) :
                              cu_seqlens[k] <= p /\ p < cu_seqlens[k + 1]}) = 1

C8_Witness ==
    /\ encoder_status = "returned"
    /\ grid_thw = << <<2, 2, 2>>, <<1, 4, 4>> >>
    /\ cu_seqlens = <<0, 4, 8, 24>>

FramesBefore(thw, i) == SumSeq([n \in 1..(i - 1) |-> thw[n][1]])

ItemOffset(thw, i) == SumSeq([n \in 1..(i - 1) |-> thw[n][1] * thw[n][2] * thw[n][3]])

\* pair o of merge window (br, bc): row-major inside the window
WindowPair(br, bc, o) ==
    <<br * spatial_merge_size + (o \div spatial_merge_size),
      bc * spatial_merge_size + (o % spatial_merge_size)>>

\* C16: an item (t, h, w) gets t*h*w pairs; block B of m*m pairs (from 0, the
\* blocks of a frame counted on in the next frame) holds the pairs of window
\* (br, bc), br = B' div (w/m) and bc = B' mod (w/m) for B' = B mod (h/m * w/m),
\* in row-major order inside the window, so the windows run row-major too.
C16_WindowBlocks ==
    encoder_status = "returned" =>
        /\ Len(pos_ids) = TotalPatches(grid_thw)
        /\ \A i \in DOMAIN grid_thw :
              LET h == grid_thw[i][2]
                  w == grid_thw[i][3]
                  mm == spatial_merge_size * spatial_merge_size
                  cols == w \div spatial_merge_size
                  windows == (h \div spatial_merge_size) * cols
              IN  \A B \in 0..((grid_thw[i][1] * h * w) \div mm - 1), o \in 0..(mm - 1) :
                      pos_ids[ItemOffset(grid_thw, i) + B * mm + o + 1]
                          = WindowPair((B % windows) \div cols, (B % windows) % cols, o)

C16_Witness ==
    /\ encoder_status = "returned"
    /\ grid_thw = << <<1, 4, 4>> >>
    /\ Len(pos_ids) = 16
    /\ SubSeq(pos_ids, 1, 4) = << <<0, 0>>, <<0, 1>>, <<1, 0>>, <<1, 1>> >>
    /\ SubSeq(pos_ids, 5, 8) = << <<0, 2>>, <<0, 3>>, <<1, 2>>, <<1, 3>> >>
    /\ SubSeq(pos_ids, 9, 12) = << <<2, 0>>, <<2, 1>>, <<3, 0>>, <<3, 1>> >>

\* C17: item i starts at the offset sum of t*h*w over the items before it; its
\* first h*w pairs are the cells of its own h x w grid, each once; and the pair
\* at offset k + f*h*w of the item is the pair at offset k, for every frame f.
C17_FramesRepeatItemsInOrder ==
    encoder_status = "returned" =>
        /\ Len(pos_ids) = TotalPatches(grid_thw)
        /\ \A i \in DOMAIN grid_thw :
              LET t == grid_thw[i][1]
                  hw == grid_thw[i][2] * grid_thw[i][3]
                  start == ItemOffset(grid_thw, i)
              IN  /\ {pos_ids[start + k + 1] : k \in 0..(hw - 1)}
                        = (0..(grid_thw[i][2] - 1)) \X (0..(grid_thw[i][3] - 1))
                  /\ \A f \in 0..(t - 1), k \in 0..(hw - 1) :
                        pos_ids[start + f * hw + k + 1] = pos_ids[start + k + 1]

C17_Witness ==
    /\ encoder_status = "returned"
    /\ grid_thw = << <<1, 2, 2>>, <<2, 2, 4>> >>
    /\ Len(pos_ids) = 20
    /\ pos_ids[4 + 3] = <<1, 0>>
    /\ pos_ids[4 + 8 + 3] = <<1, 0>>
    /\ pos_ids[4 + 8 + 5] = <<0, 2>>

\* C18: for n * m^2 patches the merger returns n rows; row j is viewed from the
\* patches j*m^2 .. (j+1)*m^2 - 1 of the packed order, and these are the m^2
\* patches of one merge window of one frame of one item.
C18_MergerGroupsAreWindows ==
    encoder_status = "returned" =>
        LET mm == spatial_merge_size * spatial_merge_size
        IN  /\ merged_rows * mm = TotalPatches(grid_thw)
            /\ Len(merger_groups) = merged_rows
            /\ \A j \in 1..Len(merger_groups) :
                  /\ merger_groups[j] = [o \in 1..mm |-> (j - 1) * mm + (o - 1)]
                  /\ \E i \in DOMAIN grid_thw :
                     \E f \in 0..(grid_thw[i][1] - 1),
                        br \in 0..(grid_thw[i][2] \div spatial_merge_size - 1),
                        bc \in 0..(grid_thw[i][3] \div spatial_merge_size - 1) :
                        LET hw == grid_thw[i][2] * grid_thw[i][3]
                            lo == ItemOffset(grid_thw, i) + f * hw
                        IN  /\ \A o \in 1..mm :
                                  /\ lo <= merger_groups[j][o]
                                  /\ merger_groups[j][o] < lo + hw
                            /\ {pos_ids[merger_groups[j][o] + 1] : o \in 1..mm}
                                  = {WindowPair(br, bc, o) : o \in 0..(mm - 1)}

C18_Witness ==
    /\ encoder_status = "returned"
    /\ grid_thw = << <<1, 2, 2>>, <<2, 2, 4>> >>
    /\ merged_rows = 5
    /\ merger_groups[4] = <<12, 13, 14, 15>>
    /\ {pos_ids[merger_groups[4][o] + 1] : o \in 1..4}
          = {<<0, 0>>, <<0, 1>>, <<1, 0>>, <<1, 1>>}

\* the grid list has an item that cannot be merged: its patch count is not a
\* multiple of m^2, or its h or w is not a multiple of m
HasUnmergeableItem(thw) ==
    \E i \in DOMAIN thw :
        \/ (thw[i][1] * thw[i][2] * thw[i][3])
              % (spatial_merge_size * spatial_merge_size) # 0
        \/ thw[i][2] % spatial_merge_size # 0
        \/ thw[i][3] % spatial_merge_size # 0

\* C19: a forward call on a grid list with an unmergeable item raises and
\* returns no feature rows; and every row a forward call does return is viewed
\* from patches of a single item.
C19_UnmergeableGridRaises ==
    /\ encoder_status # "idle" /\ HasUnmergeableItem(grid_thw) =>
          /\ encoder_status = "raised"
          /\ merged_rows = 0
          /\ merger_groups = <<>>
    /\ encoder_status = "returned" =>
          \A j \in 1..Len(merger_groups) :
              \E i \in DOMAIN grid_thw :
                  \A o \in DOMAIN merger_groups[j] :
                      /\ ItemOffset(grid_thw, i) <= merger_groups[j][o]
                      /\ merger_groups[j][o] < ItemOffset(grid_thw, i + 1)

C19_Witness ==
    /\ encoder_status = "raised"
    /\ grid_thw = << <<1, 2, 2>>, <<2, 2, 1>> >>
    /\ merged_rows = 0
    /\ merger_groups = <<>>

-----------------------------------------------------------------------------
(* Input parsing: get_multimodal_embeddings and what it calls *)

\* A keyword argument is absent (None), a tensor of some rank, a list of
\* tensors, or an object of another type.  The data are chunks of rows: the one
\* chunk of a rank-2 tensor, the slices along the first axis of a rank-3
\* tensor, the members of a list; tensors of other ranks are rejected unread
\* and carry no data here.
NoneInput == [kind |-> "none", ndim |-> 0, data |-> <<>>]
OtherInput == [kind |-> "other", ndim |-> 0, data |-> <<>>]
TensorInput(ndim, data) == [kind |-> "tensor", ndim |-> ndim, data |-> data]
ListInput(data) == [kind |-> "list", ndim |-> 0, data |-> data]

InputNames == {"pixel_values", "embeds", "grid_thw"}

\* two chunks of a keyword argument: grid descriptors for grid_thw, distinct
\* opaque rows for the others
SampleChunks(name, modality) ==
    IF name = "grid_thw"
    THEN << << <<1, 2, 2>> >>, << <<1, 2, 4>> >> >>
    ELSE << << <<name, modality, 1>>, <<name, modality, 2>> >>,
            << <<name, modality, 3>>, <<name, modality, 4>> >> >>

\* the values a keyword argument is drawn from: absent, another type, tensors
\* of rank 1 to 4, a list of two rank-2 tensors
MmValues(name, modality) ==
    LET chunks == SampleChunks(name, modality)
    IN  {NoneInput, OtherInput,
         TensorInput(1, <<>>),
         TensorInput(2, <<chunks[1] \o chunks[2]>>),
         TensorInput(3, chunks),
         TensorInput(4, <<>>),
         ListInput(chunks)}

\* torch.concat of a sequence of rank-2 tensors along dim 0
RECURSIVE Concat(_)
Concat(chunks) ==
    IF chunks = <<>> THEN <<>> ELSE Head(chunks) \o Concat(Tail(chunks))

\* Faulty variant: a tensor of any rank but 3 is passed through.
ValidateAndReshapeMmTensorAnyRank(mm_input) ==
    IF mm_input.kind \notin {"tensor", "list"}
    THEN [ok |-> FALSE, ndim |-> 0, rows |-> <<>>]
    ELSE IF mm_input.kind = "tensor" /\ mm_input.ndim # 3
         THEN [ok |-> TRUE, ndim |-> mm_input.ndim, rows |-> Concat(mm_input.data)]
         ELSE [ok |-> TRUE, ndim |-> 2, rows |-> Concat(mm_input.data)]

\* _validate_and_reshape_mm_tensor: ValueError for what is neither tensor nor
\* list and for a tensor of rank other than 2 or 3; a rank-2 tensor is returned
\* as it is, a rank-3 tensor as torch.concat(list(mm_input)), a list as
\* torch.concat(mm_input); the result is the rank-2 tensor of these rows
ValidateAndReshapeMmTensor(mm_input) ==
    IF mm_input.kind \notin {"tensor", "list"}
    THEN [ok |-> FALSE, ndim |-> 0, rows |-> <<>>]
    ELSE IF mm_input.kind = "tensor"
         THEN IF mm_input.ndim = 2
              THEN [ok |-> TRUE, ndim |-> 2, rows |-> mm_input.data[1]]
              ELSE IF mm_input.ndim # 3
                   THEN [ok |-> FALSE, ndim |-> 0, rows |-> <<>>]
                   ELSE [ok |-> TRUE, ndim |-> 2, rows |-> Concat(mm_input.data)]
         ELSE [ok |-> TRUE, ndim |-> 2, rows |-> Concat(mm_input.data)]

\* the parsed input of a modality: none, or the tagged pair of tensors, each
\* with its rank and rows
NoParsedInput ==
    [some |-> FALSE, type |-> "none", ndim |-> 0, values |-> <<>>,
     grid_ndim |-> 0, grid_thw |-> <<>>]
ParsedInput(type, v, g) ==
    [some |-> TRUE, type |-> type, ndim |-> v.ndim, values |-> v.rows,
     grid_ndim |-> g.ndim, grid_thw |-> g.rows]

\* _parse_and_validate_image_input / _parse_and_validate_video_input: None when
\* neither pixel values nor embeds are given; else pixel values, when given,
\* are validated with the grid descriptor; else the embeds are, with the grid
\* descriptor
ParseAndValidateInput(kw) ==
    IF kw["pixel_values"].kind = "none" /\ kw["embeds"].kind = "none"
    THEN [raised |-> FALSE, input |-> NoParsedInput]
    ELSE LET type == IF kw["pixel_values"].kind # "none" THEN "pixel_values" ELSE "embeds"
             v == ValidateAndReshapeMmTensor(kw[type])
             g == ValidateAndReshapeMmTensor(kw["grid_thw"])
         IN  IF v.ok /\ g.ok
             THEN [raised |-> FALSE, input |-> ParsedInput(type, v, g)]
             ELSE [raised |-> TRUE, input |-> NoParsedInput]

\* The values of an input row are floats; the third component of a row stands
\* for them.  float32 holds every value of the model, bfloat16 with its shorter
\* mantissa only the even ones.
Dtypes == {"float32", "bfloat16"}

Representable(row, dtype) == dtype = "float32" \/ row[3] % 2 = 0

\* Tensor.type(dtype) on one row: a representable value is kept, another is
\* rounded to a representable one
CastRow(row, dtype) ==
    IF Representable(row, dtype) THEN row
    ELSE <<row[1], row[2], 2 * (row[3] \div 2)>>

\* Tensor.type(dtype): every row cast, order kept
Type(rows, dtype) == [i \in DOMAIN rows |-> CastRow(rows[i], dtype)]

\* Faulty variant: embeds, too, are run through the encoder.
ProcessMmInputAlwaysEncoding(modality, input) ==
    LET res == VisionTransformerForward(input.grid_thw)
    IN  [visual |-> TRUE, ok |-> res.ok, rows |-> FeatureRows(modality, res.rows)]

\* _process_image_input / _process_video_input: embeds are returned cast to
\* the encoder's dtype; pixel values, cast likewise, go through self.visual
\* with the grid descriptor
ProcessMmInput(modality, input) ==
    IF input.type = "embeds"
    THEN [visual |-> FALSE, ok |-> TRUE, rows |-> Type(input.values, visual_dtype)]
    ELSE LET res == VisionTransformerForward(input.grid_thw)
         IN  [visual |-> TRUE, ok |-> res.ok, rows |-> FeatureRows(modality, res.rows)]

\* the rotary cache after the modality's input has been processed
RotaryAfterProcess(cached_len, cached, input) ==
    IF input.some /\ input.type = "pixel_values"
    THEN RotaryAfterEncoder(cached_len, cached, input.grid_thw)
    ELSE [seq_len_cached |-> cached_len, freqs_cached |-> cached]

\* self.visual(pixel_values, grid_thw=...): what the encoder is called with
VisualCall(modality, input) ==
    [modality |-> modality, pixel_values |-> Type(input.values, visual_dtype),
     grid_thw |-> input.grid_thw]

\* One call of get_multimodal_embeddings: both modalities are parsed, then the
\* parsed inputs are processed, images first.
GetMultimodalEmbeddings ==
    /\ mm_status = "idle"
    /\ \E pixel_values \in MmValues("pixel_values", "image"),
          image_embeds \in MmValues("embeds", "image"),
          image_grid \in MmValues("grid_thw", "image"),
          pixel_values_videos \in MmValues("pixel_values", "video"),
          video_embeds \in MmValues("embeds", "video"),
          video_grid \in MmValues("grid_thw", "video") :
         /\ LET kw == [image |-> [pixel_values |-> pixel_values,
                                  embeds |-> image_embeds,
                                  grid_thw |-> image_grid],
                       video |-> [pixel_values |-> pixel_values_videos,
                                  embeds |-> video_embeds,
                                  grid_thw |-> video_grid]]
                image == ParseAndValidateInput(kw["image"])
                video == ParseAndValidateInput(kw["video"])
                img == IF image.input.some THEN ProcessMmInput("image", image.input)
                       ELSE [visual |-> FALSE, ok |-> TRUE, rows |-> <<>>]
                vid == IF video.input.some THEN ProcessMmInput("video", video.input)
                       ELSE [visual |-> FALSE, ok |-> TRUE, rows |-> <<>>]
                rot1 == RotaryAfterProcess(seq_len_cached, freqs_cached, image.input)
                rot2 == RotaryAfterProcess(rot1.seq_len_cached, rot1.freqs_cached,
                                           video.input)
            IN  /\ mm_kwargs' = kw
                /\ IF image.raised \/ video.raised
                   THEN /\ mm_image_input' = image.input
                        /\ mm_video_input' = NoParsedInput
                        /\ visual_calls' = <<>>
                        /\ mm_result' = None
                        /\ mm_status' = "raised_ValueError"
                        /\ UNCHANGED <<seq_len_cached, freqs_cached>>
                   ELSE /\ mm_image_input' = image.input
                        /\ mm_video_input' = video.input
                        /\ visual_calls' =
                              (IF img.visual THEN <<VisualCall("image", image.input)>>
                               ELSE <<>>)
                              \o (IF img.ok /\ vid.visual
                                  THEN <<VisualCall("video", video.input)>> ELSE <<>>)
                        /\ mm_result' =
                              IF img.ok /\ vid.ok
                              THEN MultimodalEmbeddingsList(
                                       IF image.input.some THEN Some(img.rows) ELSE None,
                                       IF video.input.some THEN Some(vid.rows) ELSE None)
                              ELSE None
                        /\ mm_status' = IF img.ok /\ vid.ok THEN "returned"
                                        ELSE "raised_in_encoder"
                        /\ seq_len_cached' = IF img.ok THEN rot2.seq_len_cached
                                             ELSE rot1.seq_len_cached
                        /\ freqs_cached' = IF img.ok THEN rot2.freqs_cached
                                           ELSE rot1.freqs_cached
    /\ UNCHANGED <<fusion_vars, encoder_vars, attn_vars, construct_vars, rotary_call_vars,
                   visual_dtype, load_vars, rope_vars, rot_pos_vars>>

MmNext == GetMultimodalEmbeddings

\* the model after construction with parameters of either dtype
InitMultimodal ==
    /\ FusionInit /\ EncoderInit /\ RotaryInit /\ AttnIdle /\ LoadIdle /\ RopeIdle /\ RotPosIdle
    /\ mm_kwargs = <<>>
    /\ mm_image_input = NoParsedInput
    /\ mm_video_input = NoParsedInput
    /\ visual_calls = <<>>
    /\ mm_result = None
    /\ mm_status = "idle"
    /\ visual_dtype \in Dtypes

SpecMultimodalInputs == InitMultimodal /\ [][MmNext]_vars

\* neither a tensor nor a list, or a tensor of a rank other than 2 and 3
Rejectable(v) ==
    \/ v.kind = "other"
    \/ v.kind = "tensor" /\ v.ndim \notin {2, 3}

Given(v) == v.kind # "none"

\* a grid descriptor is missing although pixel values or embeds are given
GridMissing(kw) ==
    /\ ~Given(kw["grid_thw"])
    /\ Given(kw["pixel_values"]) \/ Given(kw["embeds"])

\* 0-based offset of chunk c in the concatenation of the chunks
ChunkOffset(chunks, c) == SumSeq([n \in 1..(c - 1) |-> Len(chunks[n])])

\* rows is v as the claim has it come out: the rows of a rank-2 tensor, the
\* chunks of a rank-3 tensor or of a list one after another
RowsAsClaimed(v, rows) ==
    IF v.kind = "tensor" /\ v.ndim = 2
    THEN rows = v.data[1]
    ELSE /\ Len(rows) = SumSeq([n \in DOMAIN v.data |-> Len(v.data[n])])
         /\ \A c \in DOMAIN v.data : \A k \in DOMAIN v.data[c] :
               rows[ChunkOffset(v.data, c) + k] = v.data[c][k]

\* every parsed input holds its two arguments as the claim has them come out
ParsedAsClaimed ==
    \A m \in Modalities :
        LET p == IF m = "image" THEN mm_image_input ELSE mm_video_input
        IN  p.some =>
              /\ p.ndim = 2 /\ RowsAsClaimed(mm_kwargs[m][p.type], p.values)
              /\ p.grid_ndim = 2 /\ RowsAsClaimed(mm_kwargs[m]["grid_thw"], p.grid_thw)

Used(kw, n) ==
    IF n = "pixel_values" THEN Given(kw["pixel_values"])
    ELSE IF n = "embeds" THEN ~Given(kw["pixel_values"]) /\ Given(kw["embeds"])
    ELSE Given(kw["pixel_values"]) \/ Given(kw["embeds"])

-----------------------------------------------------------------------------
(* The two input forms of a modality *)

ParsedOf(m) == IF m = "image" THEN mm_image_input ELSE mm_video_input

\* the entries of the list the call returned
ResultEntries == IF mm_result = None THEN <<>> ELSE mm_result.val

EntriesOf(m) == SelectSeq(ResultEntries, LAMBDA e : e.modality = m)

VisualCallsOf(m) == SelectSeq(visual_calls, LAMBDA c : c.modality = m)

\* form (b): precomputed feature rows and grid descriptors, no pixel values
EmbedsForm(m) ==
    /\ ~Given(mm_kwargs[m]["pixel_values"])
    /\ Given(mm_kwargs[m]["embeds"])
    /\ Given(mm_kwargs[m]["grid_thw"])

\* form (a): packed patches and grid descriptors, no feature rows
PixelForm(m) ==
    /\ Given(mm_kwargs[m]["pixel_values"])
    /\ ~Given(mm_kwargs[m]["embeds"])
    /\ Given(mm_kwargs[m]["grid_thw"])

\* the part of the claim that does not speak of values: the encoder is
\* bypassed by form (b) and called once, with the grid descriptors, by form (a);
\* the grid descriptors are those given; the list holds one tagged tensor per
\* modality given, the image's first
FormsNormalised ==
    /\ \A m \in Modalities :
          /\ EmbedsForm(m) => VisualCallsOf(m) = <<>> /\ Len(EntriesOf(m)) = 1
          /\ PixelForm(m) =>
                /\ Len(VisualCallsOf(m)) = 1
                /\ VisualCallsOf(m)[1].grid_thw = ParsedOf(m).grid_thw
                /\ Len(EntriesOf(m)) = 1
                /\ EntriesOf(m)[1].embeddings =
                      FeatureRows(m, NumPatches(ParsedOf(m).grid_thw) \div (merge_size * merge_size))
          /\ (EmbedsForm(m) \/ PixelForm(m)) =>
                RowsAsClaimed(mm_kwargs[m]["grid_thw"], ParsedOf(m).grid_thw)
          /\ ~ParsedOf(m).some => EntriesOf(m) = <<>>
    /\ Len(ResultEntries) <= 2
    /\ \A i, j \in DOMAIN ResultEntries :
          i < j => ResultEntries[i].modality = "image" /\ ResultEntries[j].modality = "video"

\* C21: a modality given as feature rows and grid descriptors bypasses the
\* encoder and its rows come back in the same order with the same values; one
\* given as packed patches and grid descriptors is run through the encoder; the
\* grid descriptors are carried unchanged and the list returned holds one
\* tensor of feature rows per modality, tagged, images before videos.
C21_FeatureRowsUnchanged ==
    mm_status = "returned" =>
        /\ FormsNormalised
        /\ \A m \in Modalities :
              EmbedsForm(m) =>
                  RowsAsClaimed(mm_kwargs[m]["embeds"], EntriesOf(m)[1].embeddings)

\* the rows of the embeds argument, one chunk after another
GivenRows(v) == IF v.kind = "tensor" /\ v.ndim = 2 THEN v.data[1] ELSE Concat(v.data)

\* C21 (amended): as C21, but the feature rows come back in the same order
\* cast to the dtype of the encoder, which leaves exactly the values that dtype
\* can hold as they were.
C21_FeatureRowsCast ==
    mm_status = "returned" =>
        /\ FormsNormalised
        /\ \A m \in Modalities :
              EmbedsForm(m) =>
                  LET given == GivenRows(mm_kwargs[m]["embeds"])
                      out == EntriesOf(m)[1].embeddings
                  IN  /\ Len(out) = Len(given)
                      /\ \A k \in DOMAIN given :
                            /\ out[k] = CastRow(given[k], visual_dtype)
                            /\ Representable(given[k], visual_dtype) <=> out[k] = given[k]

C21_Witness ==
    /\ mm_status = "returned"
    /\ visual_dtype = "bfloat16"
    /\ EmbedsForm("image") /\ mm_kwargs["image"]["embeds"].ndim = 3
    /\ PixelForm("video") /\ mm_kwargs["video"]["grid_thw"].kind = "list"
    /\ Len(visual_calls) = 1 /\ visual_calls[1].modality = "video"
    /\ visual_calls[1].grid_thw = << <<1, 2, 2>>, <<1, 2, 4>> >>
    /\ mm_result = Some(<<[embeddings |-> << <<"embeds", "image", 0>>, <<"embeds", "image", 2>>,
                                              <<"embeds", "image", 2>>, <<"embeds", "image", 4>> >>,
                           modality |-> "image"],
                          [embeddings |-> FeatureRows("video", 3), modality |-> "video"]>>)

-----------------------------------------------------------------------------
(* Weight loading: Qwen2VisionTransformer.load_weights *)

\* A tensor is its shape and its elements in row-major order.  The elements of
\* a checkpoint tensor are opaque and distinct: element i is its own flat index.
Tensor(shape, data) == [shape |-> shape, data |-> data]
NoTensor == Tensor(<<>>, <<>>)

Arange(n) == [i \in 1..n |-> i - 1]

\* A parameter name is the sequence of its dot-separated components.
AttnName(module, leaf) == <<"blocks", "0", "attn", module, leaf>>

\* dict(self.named_parameters()) of an encoder of depth 1: the parameters the
\* constructors create
ParamNames ==
    {<<"patch_embed", "proj", "weight">>}
    \cup {<<"blocks", "0", norm, leaf>> : norm \in {"norm1", "norm2"}, leaf \in {"weight", "bias"}}
    \cup {AttnName(module, leaf) : module \in {"qkv", "proj"}, leaf \in {"weight", "bias"}}
    \cup {<<"blocks", "0", "mlp", fc, leaf>> : fc \in {"fc1", "fc2"}, leaf \in {"weight", "bias"}}
    \cup {<<"merger", "ln_q", leaf>> : leaf \in {"weight", "bias"}}
    \cup {<<"merger", "mlp", layer, leaf>> : layer \in {"0", "2"}, leaf \in {"weight", "bias"}}

\* the names a checkpoint entry is drawn from: packed and separate projections,
\* other parameters of the encoder, a name already fused, a name unknown to it
CheckpointNames ==
    {AttnName("qkv", "weight"), AttnName("qkv", "bias"), AttnName("proj", "weight"),
     AttnName("q_proj", "weight"), AttnName("k_proj", "weight"), AttnName("v_proj", "bias"),
     AttnName("qkv_proj", "weight"), <<"merger", "ln_q", "weight">>,
     <<"blocks", "0", "attn", "inv_freq">>}

\* the tensor a checkpoint holds under a name, for an encoder of H heads and
\* width E: a packed qkv weight is [3 * E, E], a packed bias [3 * E], any
\* other weight [E, E] and any other tensor [E]
CheckpointTensor(name, H, E) ==
    LET module == name[Len(name) - 1]
        leaf == name[Len(name)]
        shape == IF leaf = "weight"
                 THEN IF module = "qkv" THEN <<3 * E, E>>
                      ELSE IF module \in {"norm1", "norm2", "ln_q"} THEN <<E>> ELSE <<E, E>>
                 ELSE IF module = "qkv" THEN <<3 * E>> ELSE <<E>>
        numel == IF Len(shape) = 2 THEN shape[1] * shape[2] ELSE shape[1]
    IN  Tensor(shape, Arange(numel))

\* (param_name, shard_name, shard_id)
stacked_params_mapping ==
    << <<"qkv_proj", "q_proj", "q">>,
       <<"qkv_proj", "k_proj", "k">>,
       <<"qkv_proj", "v_proj", "v">> >>

\* weight_name in component: among the components of the model, a component
\* contains a shard name when it is that name, and "qkv_proj" contains "v_proj"
ComponentContains(component, weight_name) ==
    \/ component = weight_name
    \/ component = "qkv_proj" /\ weight_name = "v_proj"

\* weight_name in name
NameContains(name, weight_name) ==
    \E i \in DOMAIN name : ComponentContains(name[i], weight_name)

\* name.replace(weight_name, param_name)
NameReplace(name, weight_name, param_name) ==
    [i \in DOMAIN name |->
        IF name[i] = weight_name THEN param_name
        ELSE IF ComponentContains(name[i], weight_name) THEN "qk" \o param_name
        ELSE name[i]]

\* the first row of stacked_params_mapping whose shard name the name contains,
\* 0 when the inner loop ends without a break
FirstMatch(name) ==
    IF \E i \in DOMAIN stacked_params_mapping :
           NameContains(name, stacked_params_mapping[i][2])
    THEN CHOOSE i \in DOMAIN stacked_params_mapping :
           /\ NameContains(name, stacked_params_mapping[i][2])
           /\ \A j \in 1..(i - 1) : ~NameContains(name, stacked_params_mapping[j][2])
    ELSE 0

\* name.endswith("qkv.weight") / name.endswith("qkv.bias")
NameEndsWith(name, module, leaf) ==
    Len(name) >= 2 /\ name[Len(name) - 1] = module /\ name[Len(name)] = leaf

\* Faulty variant: the transposition is left out.
Transpose01Dropped(data, A, B, inner) == data

\* t.view(A, B, ...).transpose(0, 1).reshape(...) of a tensor whose trailing
\* dimensions hold inner elements: element (b, a, k) of the result is element
\* (a, b, k) of the view, both read in row-major order
Transpose01(data, A, B, inner) ==
    [o \in 1..Len(data) |->
        LET b == (o - 1) \div (A * inner)
            a == ((o - 1) \div inner) % A
            k == (o - 1) % inner
        IN  data[(a * B + b) * inner + k + 1]]

\* loaded_weight.view(3, heads, head_size, embed_dim).transpose(0, 1)
\*              .reshape(-1, embed_dim)
PermuteQkvWeight(loaded_weight, visual_num_heads, visual_embed_dim) ==
    LET head_size == visual_embed_dim \div visual_num_heads
    IN  Tensor(<<Len(loaded_weight.data) \div visual_embed_dim, visual_embed_dim>>,
               Transpose01(loaded_weight.data, 3, visual_num_heads,
                           head_size * visual_embed_dim))

\* loaded_weight.view(3, heads, head_size).transpose(0, 1).reshape(-1)
PermuteQkvBias(loaded_weight, visual_num_heads, visual_embed_dim) ==
    LET head_size == visual_embed_dim \div visual_num_heads
    IN  Tensor(<<Len(loaded_weight.data)>>,
               Transpose01(loaded_weight.data, 3, visual_num_heads, head_size))

LoaderCall(name, weight, shard_id) ==
    [name |-> name, weight |-> weight, shard_id |-> shard_id]

\* weight_loader(param, loaded_weight) of a parameter that is not sharded: the
\* parameter holds the loaded tensor
WeightLoader(stored, name, loaded_weight) ==
    [stored EXCEPT ![name] = loaded_weight]

\* One turn of the loop over weights.  A name containing a shard name is
\* rewritten and its parameter's loader called with the shard id; any other
\* name has its tensor permuted when it is the packed qkv weight or bias, and
\* its parameter's loader called without a shard id.  params_dict[name] raises
\* KeyError for a name that is no parameter.
LoadOne(st, name, loaded_weight, H, E) ==
    LET match == FirstMatch(name)
    IN  IF match # 0
        THEN LET row == stacked_params_mapping[match]
                 renamed == NameReplace(name, row[2], row[1])
             IN  IF renamed \notin ParamNames
                 THEN [st EXCEPT !.status = "raised_KeyError"]
                 ELSE [st EXCEPT !.calls = Append(@, LoaderCall(renamed, loaded_weight, row[3])),
                                 !.loaded = @ \cup {renamed}]
        ELSE LET w == IF NameEndsWith(name, "qkv", "weight")
                      THEN PermuteQkvWeight(loaded_weight, H, E)
                      ELSE IF NameEndsWith(name, "qkv", "bias")
                           THEN PermuteQkvBias(loaded_weight, H, E)
                           ELSE loaded_weight
             IN  IF name \notin ParamNames
                 THEN [st EXCEPT !.status = "raised_KeyError"]
                 ELSE [st EXCEPT !.calls = Append(@, LoaderCall(name, w, "")),
                                 !.params = WeightLoader(@, name, w),
                                 !.loaded = @ \cup {name}]

\* the loop over weights from entry i on; it ends at the first raise
RECURSIVE LoadLoop(_, _, _, _, _)
LoadLoop(st, ws, i, H, E) ==
    IF i > Len(ws) \/ st.status # "running" THEN st
    ELSE LoadLoop(LoadOne(st, ws[i].name, ws[i].tensor, H, E), ws, i + 1, H, E)

\* the encoder after construction, of any number of heads and any head size;
\* dist_utils.divide has checked that the heads divide the width
InitLoad ==
    /\ FusionInit /\ EncoderInit /\ RotaryInit /\ MmInit /\ AttnIdle /\ RopeIdle
    /\ RotPosIdle
    /\ num_heads \in 1..MaxHeads
    /\ \E head_size \in 1..MaxHeadSize : embed_dim = num_heads * head_size
    /\ weights = <<>>
    /\ loader_calls = <<>>
    /\ params = [name \in ParamNames |-> NoTensor]
    /\ loaded_params = {}
    /\ load_status = "idle"
    /\ qkv_split = <<>>

\* One call of load_weights on any sequence of checkpoint entries.
LoadWeights ==
    /\ load_status = "idle"
    /\ \E names \in SeqsUpTo(CheckpointNames, MaxWeights) :
         LET ws == [i \in DOMAIN names |->
                       [name |-> names[i],
                        tensor |-> CheckpointTensor(names[i], num_heads, embed_dim)]]
             st == LoadLoop([calls |-> <<>>, params |-> params, loaded |-> {},
                             status |-> "running"], ws, 1, num_heads, embed_dim)
         IN  /\ weights' = ws
             /\ loader_calls' = st.calls
             /\ params' = st.params
             /\ loaded_params' = st.loaded
             /\ load_status' = IF st.status = "running" THEN "returned" ELSE st.status
    /\ UNCHANGED <<fusion_vars, encoder_vars, attn_vars, construct_vars, rotary_vars,
                   mm_vars, num_heads, embed_dim, qkv_split, rope_vars, rot_pos_vars>>

\* Qwen2VisionAttention.forward up to the split: output feature j of self.qkv
\* is made of row j of its weight and element j of its bias; the features are
\* viewed [head, 3 * head_dim] and split in three along the last dimension.
\* For every type, head and position the rows of the stored weight and the
\* element of the stored bias it is made of.
QkvForward ==
    /\ load_status = "returned"
    /\ qkv_split = <<>>
    /\ params[AttnName("qkv", "weight")] # NoTensor
    /\ params[AttnName("qkv", "bias")] # NoTensor
    /\ LET head_dim == embed_dim \div num_heads
           weight == params[AttnName("qkv", "weight")].data
           bias == params[AttnName("qkv", "bias")].data
       IN  qkv_split' =
             [c \in 1..3 |-> [h \in 1..num_heads |-> [d \in 1..head_dim |->
                 LET j == (h - 1) * (3 * head_dim) + (c - 1) * head_dim + (d - 1)
                 IN  [weight_row |-> [e \in 1..embed_dim |-> weight[j * embed_dim + e]],
                      bias |-> bias[j + 1]]]]]
    /\ UNCHANGED <<fusion_vars, encoder_vars, attn_vars, construct_vars, rotary_vars,
                   mm_vars, num_heads, embed_dim, weights, loader_calls, params,
                   loaded_params, load_status, rope_vars, rot_pos_vars>>

LoadNext == LoadWeights \/ QkvForward

SpecLoadWeights == InitLoad /\ [][LoadNext]_vars

-----------------------------------------------------------------------------
(* Claims about weight loading *)

HeadSize == embed_dim \div num_heads

\* the rows of a [rows, columns] tensor, or the elements of a [rows] tensor as
\* rows of one element
RowsOf(t) ==
    LET columns == IF Len(t.shape) = 2 THEN t.shape[2] ELSE 1
    IN  [r \in 1..(Len(t.data) \div columns) |->
            [e \in 1..columns |-> t.data[(r - 1) * columns + e]]]

\* internal row (h * 3 + c) * head_dim + d is checkpoint row
\* (c * heads + h) * head_dim + d
HeadMajorOf(internal, checkpoint) ==
    /\ Len(internal) = 3 * embed_dim
    /\ Len(checkpoint) = 3 * embed_dim
    /\ \A h \in 0..(num_heads - 1), c \in 0..2, d \in 0..(HeadSize - 1) :
          internal[(h * 3 + c) * HeadSize + d + 1] =
              checkpoint[(c * num_heads + h) * HeadSize + d + 1]

\* every row of the one is exactly one row of the other
RowBijection(internal, checkpoint) ==
    /\ Len(internal) = Len(checkpoint)
    /\ \A r \in DOMAIN checkpoint :
          Cardinality({o \in DOMAIN internal : internal[o] = checkpoint[r]}) = 1

\* for every internal row the checkpoint row it is
SourceRows(internal, checkpoint) ==
    [o \in DOMAIN internal |-> CHOOSE r \in DOMAIN checkpoint : checkpoint[r] = internal[o]]

IsPackedQkv(name) ==
    NameEndsWith(name, "qkv", "weight") \/ NameEndsWith(name, "qkv", "bias")

\* C22: a packed qkv weight or bias stored type-major in the checkpoint
\* reaches its parameter head-major: internal row (h*3 + c)*head_dim + d is
\* checkpoint row (c*heads + h)*head_dim + d; the mapping is a bijection on
\* rows and the same for weight and bias; forward reads the stored rows as
\* they are, so q, k and v of head h are made of the checkpoint's q, k and v
\* rows of head h.
C22_LoadTimePermutation ==
    /\ \A i \in DOMAIN loader_calls :
          IsPackedQkv(weights[i].name) =>
              LET internal == RowsOf(loader_calls[i].weight)
                  checkpoint == RowsOf(weights[i].tensor)
              IN  /\ loader_calls[i].name = weights[i].name
                  /\ loader_calls[i].shard_id = ""
                  /\ params[weights[i].name] = loader_calls[i].weight
                  /\ loader_calls[i].weight.shape = weights[i].tensor.shape
                  /\ HeadMajorOf(internal, checkpoint)
                  /\ RowBijection(internal, checkpoint)
    /\ \A i, j \in DOMAIN loader_calls :
          NameEndsWith(weights[i].name, "qkv", "weight")
          /\ NameEndsWith(weights[j].name, "qkv", "bias")
          => SourceRows(RowsOf(loader_calls[i].weight), RowsOf(weights[i].tensor))
             = SourceRows(RowsOf(loader_calls[j].weight), RowsOf(weights[j].tensor))
    /\ qkv_split # <<>> =>
          LET weight == RowsOf(CheckpointTensor(AttnName("qkv", "weight"), num_heads, embed_dim))
              bias == CheckpointTensor(AttnName("qkv", "bias"), num_heads, embed_dim).data
          IN  \A c \in 1..3, h \in 1..num_heads, d \in 1..HeadSize :
                 LET r == ((c - 1) * num_heads + (h - 1)) * HeadSize + d
                 IN  /\ qkv_split[c][h][d].weight_row = weight[r]
                     /\ qkv_split[c][h][d].bias = bias[r]

C22_Witness ==
    /\ num_heads = 2 /\ embed_dim = 4
    /\ load_status = "returned"
    /\ Len(weights) = 2
    /\ weights[1].name = AttnName("qkv", "bias")
    /\ weights[1].tensor.data = <<0, 1, 2, 3, 4, 5, 6, 7, 8, 9, 10, 11>>
    /\ params[AttnName("qkv", "bias")].data = <<0, 1, 4, 5, 8, 9, 2, 3, 6, 7, 10, 11>>
    /\ weights[2].name = AttnName("qkv", "weight")
    /\ RowsOf(params[AttnName("qkv", "weight")])[3] = <<16, 17, 18, 19>>
    /\ qkv_split # <<>>
    /\ qkv_split[2][1][1].bias = 4
    /\ qkv_split[2][2][1].weight_row = <<24, 25, 26, 27>>

-----------------------------------------------------------------------------
(* Applying the rotation: rotate_half, apply_rotary_emb_torch,
   apply_rotary_pos_emb_vision *)

\* Numbers are rationals, a numerator over a positive denominator.
Rat(num, den) == [num |-> num, den |-> den]
RatOfInt(n) == Rat(n, 1)
RatNeg(a) == Rat(0 - a.num, a.den)
RatMul(a, b) == Rat(a.num * b.num, a.den * b.den)
RatAdd(a, b) == Rat(a.num * b.den + b.num * a.den, a.den * b.den)
RatEq(a, b) == a.num * b.den = b.num * a.den

\* An angle is given by its cosine and sine over a common denominator; the
\* angles of the model are those of rational points of the unit circle.
Angle(c, s, den) == [cos |-> c, sin |-> s, den |-> den]
RationalAngles ==
    {Angle(1, 0, 1), Angle(0, 1, 1), Angle(0, -1, 1),
     Angle(3, 4, 5), Angle(4, 3, 5), Angle(-4, 3, 5)}

\* -freqs
NegateFreqs(freqs) ==
    [i \in DOMAIN freqs |-> Angle(freqs[i].cos, 0 - freqs[i].sin, freqs[i].den)]

\* freqs.cos(), freqs.sin()
Cos(freqs) == [i \in DOMAIN freqs |-> Rat(freqs[i].cos, freqs[i].den)]
Sin(freqs) == [i \in DOMAIN freqs |-> Rat(freqs[i].sin, freqs[i].den)]

\* repeat(v, "... d -> ... 1 (2 d)") when not interleaved: v followed by v;
\* repeat(v, "... d -> ... 1 (d 2)") when interleaved: every element twice
Repeat(v, interleaved) ==
    IF ~interleaved
    THEN v \o v
    ELSE [i \in 1..(2 * Len(v)) |-> v[(i + 1) \div 2]]

\* Faulty variant: the interleaved convention whatever the flag.
RotateHalfAlwaysInterleaved(x, interleaved) ==
    [i \in DOMAIN x |-> IF i % 2 = 1 THEN RatNeg(x[i + 1]) ELSE x[i - 1]]

\* rotate_half: cat((-x2, x1)) with x1, x2 the two halves of x when not
\* interleaved; with x1, x2 the elements of x at even and odd offsets, -x2 and
\* x1 stacked pairwise, when interleaved
RotateHalf(x, interleaved) ==
    IF ~interleaved
    THEN LET half == Len(x) \div 2
         IN  [i \in DOMAIN x |-> IF i <= half THEN RatNeg(x[i + half]) ELSE x[i - half]]
    ELSE [i \in DOMAIN x |-> IF i % 2 = 1 THEN RatNeg(x[i + 1]) ELSE x[i - 1]]

\* apply_rotary_emb_torch on one position of one head: the first ro_dim
\* elements are x * cos + rotate_half(x) * sin, the others are kept
ApplyRotaryEmbTorch(x, cos, sin, interleaved) ==
    LET ro_dim == Len(cos) * 2
        cos_r == Repeat(cos, interleaved)
        sin_r == Repeat(sin, interleaved)
        rotated == RotateHalf(SubSeq(x, 1, ro_dim), interleaved)
    IN  [i \in DOMAIN x |->
            IF i <= ro_dim
            THEN RatAdd(RatMul(x[i], cos_r[i]), RatMul(rotated[i], sin_r[i]))
            ELSE x[i]]

\* the distance between neighbouring values of a dtype
GridStep(dtype) == IF dtype = "float32" THEN 1 ELSE 2

\* the value of the dtype nearest to a rational
RoundTo(a, dtype) ==
    LET step == GridStep(dtype)
    IN  step * ((2 * a.num + a.den * step) \div (2 * a.den * step))

\* apply_rotary_pos_emb_vision: t.float(), the rotation computed in float32,
\* the result cast to the dtype of t
ApplyRotaryPosEmbVision(t, freqs, dtype) ==
    LET t_ == [i \in DOMAIN t |-> RatOfInt(t[i])]
        output == ApplyRotaryEmbTorch(t_, Cos(freqs), Sin(freqs), FALSE)
    IN  [i \in DOMAIN t |-> RoundTo(RatOfInt(RoundTo(output[i], "float32")), dtype)]

\* the head sizes a vector is drawn with
HeadDims == {2, 4}

\* the values of a dtype up to MaxAbs
GridValues(dtype) == {v \in (0 - MaxAbs)..MaxAbs : v % GridStep(dtype) = 0}

\* any vector of even length, of either dtype
InitRope ==
    /\ FusionInit /\ EncoderInit /\ RotaryInit /\ MmInit /\ LoadIdle /\ AttnIdle
    /\ RotPosIdle
    /\ rope_dtype \in Dtypes
    /\ \E headdim \in HeadDims : rope_x \in [1..headdim -> GridValues(rope_dtype)]
    /\ rope_t = rope_x
    /\ rope_exact = [i \in DOMAIN rope_x |-> RatOfInt(rope_x[i])]
    /\ rope_freqs = <<>>
    /\ rope_calls = 0

\* apply_rotary_pos_emb_vision(t, freqs), as the attention applies it to q and
\* k, with any angles for any number of leading positions
Rotate ==
    /\ rope_calls = 0
    /\ \E rotary_dim \in 1..(Len(rope_x) \div 2) :
         \E freqs \in [1..rotary_dim -> RationalAngles] :
            /\ rope_freqs' = freqs
            /\ rope_t' = ApplyRotaryPosEmbVision(rope_t, freqs, rope_dtype)
            /\ rope_exact' = ApplyRotaryEmbTorch(rope_exact, Cos(freqs), Sin(freqs), FALSE)
    /\ rope_calls' = 1
    /\ UNCHANGED <<fusion_vars, encoder_vars, attn_vars, construct_vars, rotary_vars,
                   mm_vars, load_vars, rope_dtype, rope_x, rot_pos_vars>>

\* apply_rotary_pos_emb_vision(t, -freqs) on what the first call returned
RotateBack ==
    /\ rope_calls = 1
    /\ LET freqs == NegateFreqs(rope_freqs)
       IN  /\ rope_freqs' = freqs
           /\ rope_t' = ApplyRotaryPosEmbVision(rope_t, freqs, rope_dtype)
           /\ rope_exact' = ApplyRotaryEmbTorch(rope_exact, Cos(freqs), Sin(freqs), FALSE)
    /\ rope_calls' = 2
    /\ UNCHANGED <<fusion_vars, encoder_vars, attn_vars, construct_vars, rotary_vars,
                   mm_vars, load_vars, rope_dtype, rope_x, rot_pos_vars>>

RopeNext == Rotate \/ RotateBack

SpecRotateHalf == InitRope /\ [][RopeNext]_vars

\* C23: rotating by theta and then by -theta returns the original vector, for
\* every vector of even length and every angle; the rotation of the encoder is
\* the half-split one, out = x*cos + concat(-x2, x1)*sin.
C23_RoundTripExact ==
    rope_calls = 2 => rope_t = rope_x

\* out = x*cos + concat(-x2, x1)*sin on the first 2 * Len(freqs) elements of
\* x, with x1 and x2 their two halves
HalfSplitOf(out, x, freqs) ==
    LET half == Len(freqs)
    IN  /\ Len(out) = Len(x)
        /\ \A i \in 1..half :
              /\ RatEq(out[i], Rat(x[i] * freqs[i].cos - x[i + half] * freqs[i].sin,
                                   freqs[i].den))
              /\ RatEq(out[i + half], Rat(x[i + half] * freqs[i].cos + x[i] * freqs[i].sin,
                                          freqs[i].den))
        /\ \A i \in (2 * half + 1)..Len(x) : RatEq(out[i], RatOfInt(x[i]))

Abs(n) == IF n < 0 THEN 0 - n ELSE n

\* C23 (amended): rotating by theta and then by -theta returns the original
\* vector when computed without rounding, and as computed, in float32 with the
\* result cast to the dtype of the input, a vector within one step of that
\* dtype of the original in every element; the rotation of the encoder is the
\* half-split one, out = x*cos + concat(-x2, x1)*sin.
C23_RoundTripWithinTolerance ==
    /\ rope_calls = 1 => HalfSplitOf(rope_exact, rope_x, rope_freqs)
    /\ rope_calls = 2 =>
          /\ \A i \in DOMAIN rope_x : RatEq(rope_exact[i], RatOfInt(rope_x[i]))
          /\ Len(rope_t) = Len(rope_x)
          /\ \A i \in DOMAIN rope_x : Abs(rope_t[i] - rope_x[i]) <= GridStep(rope_dtype)

C23_Witness ==
    /\ rope_calls = 2
    /\ rope_dtype = "bfloat16"
    /\ rope_x = <<2, 0, 0, -2>>
    /\ rope_freqs = <<Angle(3, -4, 5), Angle(0, -1, 1)>>
    /\ rope_exact[1] = Rat(31250, 15625)
    /\ rope_t = <<4, 0, 0, -2>>

-----------------------------------------------------------------------------
(* Specification of rot_pos_emb on grid lists of any shape, with the rotary
   cache in any state earlier lookups can have left it in *)

\* rotary_pos_emb_full[pos_ids].flatten(1): for every patch the table's row at
\* its row id followed by the table's row at its column id; an id past the
\* table raises IndexError
IndexLookup(full, ids) ==
    IF \E n \in DOMAIN ids : ids[n][1] >= Len(full) \/ ids[n][2] >= Len(full)
    THEN [ok |-> FALSE, rows |-> <<>>]
    ELSE [ok |-> TRUE,
          rows |-> [n \in DOMAIN ids |-> <<full[ids[n][1] + 1], full[ids[n][2] + 1]>>]]

\* the rotary embedding is empty, or holds the table of twice the length of an
\* earlier lookup
InitRotPosEmb ==
    /\ FusionInit /\ EncoderInit /\ MmInit /\ LoadIdle /\ RopeIdle /\ RotPosIdle /\ AttnIdle
    /\ \E L \in 0..MaxSeqlen :
          /\ seq_len_cached = 2 * L
          /\ freqs_cached = IF L = 0 THEN None ELSE Some(FreqsTable(2 * L))
    /\ lookups = <<>>
    /\ rot_pc = [th \in Threads |-> "idle"]
    /\ rot_arg = [th \in Threads |-> "int"]
    /\ rot_seqlen = [th \in Threads |-> 0]
    /\ rot_local = [th \in Threads |-> 0]
    /\ rot_result = [th \in Threads |-> None]

\* One call of rot_pos_emb on a non-empty grid list: the position ids are
\* built item by item, the rotary embedding is looked up with the 0-dim tensor
\* grid_thw[:, 1:].max(), and the table it returns is indexed with the ids.
RotPosEmb ==
    /\ rot_pos_status = "idle"
    /\ \E g \in SeqsUpTo(AnyGrids, MaxItems) \ {<<>>} :
         /\ NumPatches(g) <= spatial_merge_size * spatial_merge_size * MaxWindows
         /\ LET ids == RotPosIds(g)
                seqlen == MaxGridSize(g)
                upd == UpdateFreqsCache(seq_len_cached, freqs_cached, seqlen)
                stop == SeqlenAfterUpdate("tensor", seqlen, seqlen > seq_len_cached)
                full == SliceRows(upd.freqs_cached.val, stop)
                out == IndexLookup(full, ids.pos_ids)
            IN  /\ grid_thw' = g
                /\ pos_ids' = ids.pos_ids
                /\ IF ~ids.ok
                   THEN /\ rot_pos_status' = "raised_RuntimeError"
                        /\ UNCHANGED <<max_grid_size, rotary_pos_emb_full, rotary_pos_emb,
                                       seq_len_cached, freqs_cached>>
                   ELSE /\ max_grid_size' = seqlen
                        /\ seq_len_cached' = upd.seq_len_cached
                        /\ freqs_cached' = upd.freqs_cached
                        /\ rotary_pos_emb_full' = full
                        /\ rotary_pos_emb' = out.rows
                        /\ rot_pos_status' = IF out.ok THEN "returned"
                                              ELSE "raised_IndexError"
    /\ UNCHANGED <<fusion_vars, cu_seqlens, merged_rows, merger_groups, encoder_status,
                   attn_vars, construct_vars, rotary_call_vars, mm_vars, load_vars,
                   rope_vars>>

RotPosEmbNext == RotPosEmb

SpecRotPosEmb == InitRotPosEmb /\ [][RotPosEmbNext]_vars

\* the larger of an item's height and width
LargerSide(g) == IF g[2] >= g[3] THEN g[2] ELSE g[3]

\* C25: rot_pos_emb asks for a table as long as the largest height or width
\* of any item; every row id and column id it generates is below that length,
\* so the index lookup stays inside the table it is given and returns one
\* rotation vector per patch, t*h*w per item, each the table's row at the row
\* id followed by the table's row at the column id.
C25_PositionIdsInsideTable ==
    /\ rot_pos_status # "raised_IndexError"
    /\ rot_pos_status = "returned" =>
          /\ \A i \in DOMAIN grid_thw : LargerSide(grid_thw[i]) <= max_grid_size
          /\ \E i \in DOMAIN grid_thw : LargerSide(grid_thw[i]) = max_grid_size
          /\ Len(rotary_pos_emb_full) >= max_grid_size
          /\ \A n \in DOMAIN pos_ids :
                /\ pos_ids[n][1] \in 0..(max_grid_size - 1)
                /\ pos_ids[n][2] \in 0..(max_grid_size - 1)
          /\ Len(rotary_pos_emb) = SumSeq([i \in DOMAIN grid_thw |-> GridProd(grid_thw[i])])
          /\ Len(pos_ids) = Len(rotary_pos_emb)
          /\ \A n \in DOMAIN rotary_pos_emb :
                rotary_pos_emb[n] = << <<"freqs", pos_ids[n][1]>>, <<"freqs", pos_ids[n][2]>> >>

C25_Witness ==
    /\ rot_pos_status = "returned"
    /\ grid_thw = << <<1, 2, 4>>, <<2, 2, 2>> >>
    /\ max_grid_size = 4
    /\ seq_len_cached = 8
    /\ Len(rotary_pos_emb_full) = 4
    /\ Len(rotary_pos_emb) = 16
    /\ rotary_pos_emb[8] = << <<"freqs", 1>>, <<"freqs", 3>> >>

-----------------------------------------------------------------------------
(* The fuse rule of load_weights *)

\* the names of the checkpoint that are parameters of the encoder or contain
\* a shard name: what a checkpoint with separate q, k, v projections holds
KnownOrSharded(name) == name \in ParamNames \/ FirstMatch(name) # 0

\* C26: every checkpoint weight gets exactly one loader call; a name
\* containing q_proj, k_proj or v_proj is rewritten to the packed qkv_proj
\* parameter and its loader called with the shard tag "q", "k" or "v" and the
\* tensor as it is; any other name gets a loader call without shard tag; every
\* name, after rewriting, is in the set of loaded parameters returned.
C26_FuseRule ==
    (load_status # "idle" /\ \A i \in DOMAIN weights : KnownOrSharded(weights[i].name)) =>
        /\ load_status = "returned"
        /\ Len(loader_calls) = Len(weights)
        /\ \A i \in DOMAIN weights :
              LET match == FirstMatch(weights[i].name)
                  call == loader_calls[i]
              IN  /\ IF match # 0
                     THEN /\ call.name = NameReplace(weights[i].name,
                                                      stacked_params_mapping[match][2],
                                                      stacked_params_mapping[match][1])
                          /\ call.shard_id = stacked_params_mapping[match][3]
                          /\ call.weight = weights[i].tensor
                     ELSE /\ call.name = weights[i].name
                          /\ call.shard_id = ""
                  /\ call.name \in loaded_params

====
